---- MODULE Spec2Model ----
(***************************************************************************)
(* Model of the SPED ingestion / apportionment / reporting core of         *)
(* contabilize (src/scripts/sped_service.py, empresa_service.py,           *)
(* database.py).                                                           *)
(*                                                                         *)
(* Text is modelled as TLA+ strings and handled character by character,    *)
(* so that strip / split / parse_float / strptime do what the Python code  *)
(* does.  Float columns are modelled exactly, in hundredths (an integer    *)
(* n stands for n/100); values computed by division are kept as exact      *)
(* fractions [n, d].  Dates are the integers YYYYMMDD.  Python's None is   *)
(* the empty tuple <<>> and a present value v is <<v>> wherever a field    *)
(* is optional.                                                            *)
(***************************************************************************)
EXTENDS Integers, Sequences, FiniteSets, TLC

(***************************************************************************)
(* Bounds of the model.                                                    *)
(***************************************************************************)
MaxLines == 3

MaxImports == 2

(***************************************************************************)
(* Optional values.                                                        *)
(***************************************************************************)
None == <<>>

Some(v) == <<v>>

(***************************************************************************)
(* str helpers: str.strip, str.replace, str.split, str.isdigit.            *)
(***************************************************************************)
Last(s) == SubSeq(s, Len(s), Len(s))

RECURSIVE LStrip(_)
LStrip(s) == IF Len(s) > 0 /\ Head(s) = " " THEN LStrip(Tail(s)) ELSE s

RECURSIVE RStrip(_)
RStrip(s) == IF Len(s) > 0 /\ Last(s) = " "
             THEN RStrip(SubSeq(s, 1, Len(s) - 1)) ELSE s

Strip(s) == RStrip(LStrip(s))

RECURSIVE Replace(_, _, _)
Replace(s, a, b) ==
    IF Len(s) = 0 THEN ""
    ELSE (IF Head(s) = a THEN b ELSE Head(s)) \o Replace(Tail(s), a, b)

RECURSIVE SplitRec(_, _, _)
SplitRec(rest, cur, acc) ==
    IF Len(rest) = 0 THEN Append(acc, cur)
    ELSE IF Head(rest) = "|" THEN SplitRec(Tail(rest), "", Append(acc, cur))
    ELSE SplitRec(Tail(rest), cur \o Head(rest), acc)

Split(s) == SplitRec(s, "", <<>>)

Digits == {"0", "1", "2", "3", "4", "5", "6", "7", "8", "9"}

DigitVal(c) ==
    CASE c = "0" -> 0 [] c = "1" -> 1 [] c = "2" -> 2 [] c = "3" -> 3
      [] c = "4" -> 4 [] c = "5" -> 5 [] c = "6" -> 6 [] c = "7" -> 7
      [] c = "8" -> 8 [] c = "9" -> 9

RECURSIVE AllDigits(_)
AllDigits(s) == Len(s) = 0 \/ (Head(s) \in Digits /\ AllDigits(Tail(s)))

RECURSIVE DigitsVal(_)
DigitsVal(s) ==
    IF Len(s) = 0 THEN 0
    ELSE DigitsVal(SubSeq(s, 1, Len(s) - 1)) * 10 + DigitVal(Last(s))

RECURSIVE OnlyDigits(_)
OnlyDigits(s) ==
    IF Len(s) = 0 THEN ""
    ELSE (IF Head(s) \in Digits THEN Head(s) ELSE "") \o OnlyDigits(Tail(s))

RECURSIVE IndexOf(_, _)
IndexOf(s, c) ==
    IF Len(s) = 0 THEN 0
    ELSE IF Head(s) = c THEN 1
    ELSE LET r == IndexOf(Tail(s), c) IN IF r = 0 THEN 0 ELSE r + 1

(***************************************************************************)
(* float(t) for the decimal literals [+-]digits[.digits]; anything else    *)
(* is a ValueError (ok = FALSE).  The value is in hundredths; the input    *)
(* sets of this model carry at most two fractional digits.                 *)
(***************************************************************************)
FloatOf(t) ==
    LET neg  == Len(t) > 0 /\ Head(t) = "-"
        body == IF Len(t) > 0 /\ Head(t) \in {"-", "+"} THEN Tail(t) ELSE t
        dot  == IndexOf(body, ".")
        ip   == IF dot = 0 THEN body ELSE SubSeq(body, 1, dot - 1)
        fp   == IF dot = 0 THEN "" ELSE SubSeq(body, dot + 1, Len(body))
        fp2  == SubSeq(fp \o "00", 1, 2)
        ok   == AllDigits(ip) /\ AllDigits(fp) /\ Len(ip) + Len(fp) > 0
        mag  == DigitsVal(ip) * 100 + DigitsVal(fp2)
    IN  IF ok THEN [ok |-> TRUE, val |-> IF neg THEN 0 - mag ELSE mag]
        ELSE [ok |-> FALSE, val |-> 0]

parse_float(value) ==
    LET s == Strip(value)
        f == FloatOf(Replace(Replace(s, ".", ""), ",", "."))
    IN  IF Len(s) = 0 THEN 0 ELSE IF f.ok THEN f.val ELSE 0

(***************************************************************************)
(* datetime.strptime(s, "%d%m%Y").date(): an 8-digit DDMMYYYY string that  *)
(* names a calendar day, else ValueError (ok = FALSE).                     *)
(***************************************************************************)
IsLeap(y) == (y % 4 = 0 /\ y % 100 # 0) \/ y % 400 = 0

DaysIn(m, y) ==
    IF m = 2 THEN (IF IsLeap(y) THEN 29 ELSE 28)
    ELSE IF m \in {4, 6, 9, 11} THEN 30 ELSE 31

strptime(s) ==
    LET wf == Len(s) = 8 /\ AllDigits(s)
        d  == DigitsVal(SubSeq(s, 1, 2))
        m  == DigitsVal(SubSeq(s, 3, 4))
        y  == DigitsVal(SubSeq(s, 5, 8))
    IN  IF wf /\ y >= 1 /\ m \in 1..12 /\ d \in 1..DaysIn(m, y)
        THEN [ok |-> TRUE, date |-> y * 10000 + m * 100 + d]
        ELSE [ok |-> FALSE, date |-> 0]

(***************************************************************************)
(* Record parser: the body of the line loop of import_sped_file.           *)
(* The parser state holds the raw lists, the error log, the company read   *)
(* from the 0000 record and the "current fiscal document" context.         *)
(*   F(fields, k) is Python's fields[k].                                   *)
(***************************************************************************)
F(fields, k) == fields[k + 1]

ParserInit ==
    [produtos_raw       |-> <<>>,
     vendas_raw         |-> <<>>,
     documentos_raw     |-> <<>>,
     erros              |-> <<>>,
     current_doc_fiscal |-> None,
     empresa_sped       |-> [cnpj |-> None, razao_social |-> None,
                             inscricao_estadual |-> None, uf |-> None]]

Parse0000(st, fields) ==
    IF Len(fields) >= 9
    THEN [st EXCEPT !.empresa_sped =
            [razao_social |->
                IF Len(fields) > 6 /\ F(fields, 6) # ""
                THEN Some(Strip(F(fields, 6))) ELSE Some("Empresa Desconhecida"),
             cnpj |->
                IF Len(fields) > 7 /\ F(fields, 7) # ""
                THEN Some(Strip(F(fields, 7))) ELSE None,
             uf |->
                IF Len(fields) > 9 /\ F(fields, 9) # ""
                THEN Some(Strip(F(fields, 9))) ELSE None,
             inscricao_estadual |->
                IF Len(fields) > 10 /\ F(fields, 10) # ""
                THEN Some(Strip(F(fields, 10))) ELSE None]]
    ELSE st

\* Mutant: the exception is swallowed without a log entry.
ErroLinha_silent(st, num_linha, reg_type) == st

ErroLinha(st, num_linha, reg_type) ==
    [st EXCEPT !.erros = Append(@, [linha |-> num_linha, reg_type |-> reg_type])]

\* Mutant of the gate: the operation indicator is not looked at.
ParseC100_anyoper(st, fields, num_linha) ==
    IF Len(fields) > 13 /\ Strip(F(fields, 10)) # ""
    THEN LET dt == strptime(F(fields, 10))
             doc == [num_documento |-> Strip(F(fields, 8)),
                     serie         |-> IF F(fields, 7) # "" THEN Strip(F(fields, 7)) ELSE "1",
                     data          |-> dt.date,
                     valor_total   |-> parse_float(F(fields, 12)),
                     ind_oper      |-> Strip(F(fields, 2)),
                     ind_pagamento |-> Strip(F(fields, 13))]
         IN  IF ~dt.ok THEN ErroLinha(st, num_linha, "C100")
             ELSE [st EXCEPT !.current_doc_fiscal = Some(doc),
                             !.documentos_raw = Append(@, doc)]
    ELSE [st EXCEPT !.current_doc_fiscal = None]

\* A C100 opens a document only when it is outbound ("1") and dated; the
\* strptime ValueError is raised while the dict is being built, before
\* current_doc_fiscal is assigned, and is caught by the per-line handler.
ParseC100(st, fields, num_linha) ==
    IF Len(fields) > 13 /\ F(fields, 2) = "1" /\ Strip(F(fields, 10)) # ""
    THEN LET dt == strptime(F(fields, 10))
             doc == [num_documento |-> Strip(F(fields, 8)),
                     serie         |-> IF F(fields, 7) # "" THEN Strip(F(fields, 7)) ELSE "1",
                     data          |-> dt.date,
                     valor_total   |-> parse_float(F(fields, 12)),
                     ind_oper      |-> Strip(F(fields, 2)),
                     ind_pagamento |-> Strip(F(fields, 13))]
         IN  IF ~dt.ok THEN ErroLinha(st, num_linha, "C100")
             ELSE [st EXCEPT !.current_doc_fiscal = Some(doc),
                             !.documentos_raw = Append(@, doc)]
    ELSE [st EXCEPT !.current_doc_fiscal = None]

Parse0200(st, fields) ==
    IF Len(fields) < 9 THEN st
    ELSE LET produto == [codigo_item    |-> Strip(F(fields, 2)),
                         descricao_item |-> Strip(F(fields, 3)),
                         unidade        |-> Strip(F(fields, 6)),
                         ncm            |-> Strip(F(fields, 8))]
         IN  IF produto.codigo_item # "" /\ produto.descricao_item # ""
                /\ produto.unidade # ""
             THEN [st EXCEPT !.produtos_raw = Append(@, produto)]
             ELSE st

\* Mutant: the quantity is not tested.
ParseC170_anyqty(st, fields) ==
    IF st.current_doc_fiscal = None THEN st
    ELSE IF Len(fields) < 8 THEN st
    ELSE LET cur            == st.current_doc_fiscal[1]
             quantidade     == parse_float(F(fields, 5))
             valor_item     == parse_float(F(fields, 7))
             valor_desconto == IF Len(fields) > 8 THEN parse_float(F(fields, 8)) ELSE 0
             venda == [num_documento  |-> cur.num_documento,
                       serie          |-> cur.serie,
                       data           |-> cur.data,
                       codigo_item    |-> Strip(F(fields, 3)),
                       quantidade     |-> quantidade,
                       valor_unitario |-> [n |-> valor_item, d |-> quantidade],
                       valor_total    |-> valor_item - valor_desconto,
                       valor_desconto |-> valor_desconto,
                       base_icms      |-> IF Len(fields) > 13 THEN parse_float(F(fields, 13)) ELSE 0,
                       valor_icms     |-> IF Len(fields) > 14 THEN parse_float(F(fields, 14)) ELSE 0,
                       aliquota_icms  |-> IF Len(fields) > 15 THEN parse_float(F(fields, 15)) ELSE 0]
         IN  IF venda.codigo_item # ""
             THEN [st EXCEPT !.vendas_raw = Append(@, venda)]
             ELSE st

\* valor_unitario is the exact quotient valor_item / quantidade.
ParseC170(st, fields) ==
    IF st.current_doc_fiscal = None THEN st
    ELSE IF Len(fields) < 8 THEN st
    ELSE LET cur            == st.current_doc_fiscal[1]
             quantidade     == parse_float(F(fields, 5))
             valor_item     == parse_float(F(fields, 7))
             valor_desconto == IF Len(fields) > 8 THEN parse_float(F(fields, 8)) ELSE 0
             venda == [num_documento  |-> cur.num_documento,
                       serie          |-> cur.serie,
                       data           |-> cur.data,
                       codigo_item    |-> Strip(F(fields, 3)),
                       quantidade     |-> quantidade,
                       valor_unitario |-> [n |-> valor_item, d |-> quantidade],
                       valor_total    |-> valor_item - valor_desconto,
                       valor_desconto |-> valor_desconto,
                       base_icms      |-> IF Len(fields) > 13 THEN parse_float(F(fields, 13)) ELSE 0,
                       valor_icms     |-> IF Len(fields) > 14 THEN parse_float(F(fields, 14)) ELSE 0,
                       aliquota_icms  |-> IF Len(fields) > 15 THEN parse_float(F(fields, 15)) ELSE 0]
         IN  IF quantidade <= 0 THEN st
             ELSE IF venda.codigo_item # ""
                  THEN [st EXCEPT !.vendas_raw = Append(@, venda)]
                  ELSE st

ParseLine(st, line, num_linha) ==
    LET fields == Split(Strip(line))
    IN  IF Strip(line) = "" THEN st
        ELSE IF Len(fields) < 2 THEN st
        ELSE LET reg_type == F(fields, 1)
             IN  CASE reg_type = "0000" -> Parse0000(st, fields)
                   [] reg_type = "C100" -> ParseC100(st, fields, num_linha)
                   [] reg_type = "0200" -> Parse0200(st, fields)
                   [] reg_type = "C170" -> ParseC170(st, fields)
                   [] OTHER -> st

RECURSIVE ParseFrom(_, _, _)
ParseFrom(st, ls, i) ==
    IF i > Len(ls) THEN st ELSE ParseFrom(ParseLine(st, ls[i], i), ls, i + 1)

ParseFile(ls) == ParseFrom(ParserInit, ls, 1)

(***************************************************************************)
(* Deduplication: list({key(r): r for r in raw}.values()).  A dict keeps   *)
(* the position of the first insertion of a key and the value of the last. *)
(***************************************************************************)
\* Mutant: the first occurrence of a key survives.
DedupByKeys_first(keys, vals) ==
    LET n == Len(keys)
        IsFirst(i) == \A j \in 1..(i - 1) : keys[j] # keys[i]
        acc[i \in 0..n] ==
            IF i = 0 THEN <<>>
            ELSE IF IsFirst(i) THEN Append(acc[i - 1], vals[i])
            ELSE acc[i - 1]
    IN  acc[n]

DedupByKeys(keys, vals) ==
    LET n == Len(keys)
        IsFirst(i) == \A j \in 1..(i - 1) : keys[j] # keys[i]
        LastOf(i) == CHOOSE j \in i..n :
                        keys[j] = keys[i] /\ \A k \in (j + 1)..n : keys[k] # keys[i]
        acc[i \in 0..n] ==
            IF i = 0 THEN <<>>
            ELSE IF IsFirst(i) THEN Append(acc[i - 1], vals[LastOf(i)])
            ELSE acc[i - 1]
    IN  acc[n]

ProdutoKey(p) == p.codigo_item

DocumentoKey(d) == <<d.num_documento, d.serie>>

VendaKey(v) == <<v.num_documento, v.serie, v.codigo_item>>

DedupProdutos(raw) == DedupByKeys([i \in 1..Len(raw) |-> ProdutoKey(raw[i])], raw)

DedupDocumentos(raw) == DedupByKeys([i \in 1..Len(raw) |-> DocumentoKey(raw[i])], raw)

DedupVendas(raw) == DedupByKeys([i \in 1..Len(raw) |-> VendaKey(raw[i])], raw)

(***************************************************************************)
(* SPED lines.  Field positions follow the record layouts read by the      *)
(* parser: 0000 (NOME = 6, CNPJ = 7, UF = 9, IE = 10), 0200 (COD_ITEM = 2, *)
(* DESCR_ITEM = 3, UNID_INV = 6, COD_NCM = 8), C100 (IND_OPER = 2,         *)
(* SER = 7, NUM_DOC = 8, DT_DOC = 10, VL_DOC = 12, IND_PGTO = 13) and      *)
(* C170 (COD_ITEM = 3, QTD = 5, VL_ITEM = 7, VL_DESC = 8).                 *)
(***************************************************************************)
L0000(nome, cnpj) ==
    "|0000|017|0|01032024|31032024|" \o nome \o "|" \o cnpj \o "||SP|123|"

L0200(cod, descr) == "|0200|" \o cod \o "|" \o descr \o "|||UN||1234|"

LC100(ind_oper, ser, num, dt, vl, pgto) ==
    "|C100|" \o ind_oper \o "|0||55|00|" \o ser \o "|" \o num \o "||" \o dt
        \o "||" \o vl \o "|" \o pgto \o "|"

LC170(cod, qtd, vl, desc) ==
    "|C170|1|" \o cod \o "||" \o qtd \o "|UN|" \o vl \o "|" \o desc \o "|"

\* The lines the parser specification draws its files from.
ParseLines ==
    { LC100("1", "1", "100", "10032024", "121,00", "0"),
      LC100("1", "1", "100", "05042024", "50,00", "1"),
      LC100("0", "1", "200", "10032024", "70,00", "0"),
      LC100("1", "1", "300", "  ", "80,00", "0"),
      LC100("1", "1", "400", "31022024", "90,00", "0"),
      LC170("A", "1", "100,00", ""),
      LC170(" A ", "2", "30,00", "5,00"),
      LC170("B", "0", "10,00", ""),
      L0200("A", "Widget"),
      "  " }

RECURSIVE SeqsUpTo(_, _)
SeqsUpTo(S, n) ==
    IF n = 0 THEN {<<>>}
    ELSE LET prev == SeqsUpTo(S, n - 1)
         IN  prev \cup {Append(q, x) : q \in {r \in prev : Len(r) = n - 1}, x \in S}

(***************************************************************************)
(* Files the loader specifications import.  FileA is the scenario of the   *)
(* specification (one outbound document, items A and B).  FileDup belongs  *)
(* to the same company (tax ID written differently) and repeats every      *)
(* natural key of FileA, twice, with other values.  FileB is another       *)
(* company reusing the same item codes and document number.  The last      *)
(* three are structurally rejected.                                        *)
(***************************************************************************)
FileA ==
    << L0000("ACME", "11.222"),
       L0200("A", "Widget"),
       L0200("B", "Bolt"),
       LC100("1", "1", "100", "10032024", "121,00", "0"),
       LC170("A", "1", "100,00", ""),
       LC170("B", "1", "0,00", "") >>

FileDup ==
    << L0000("ACME SA", "11222"),
       L0200("A", "Gadget"),
       L0200("A ", "Gizmo"),
       LC100("1", "1", "100", "05042024", "50,00", "1"),
       LC100("1", "1", "100", "06042024", "60,00", "1"),
       LC170("A", "1", "20,00", ""),
       LC170(" A ", "2", "30,00", "5,00"),
       LC170("Z", "1", "7,00", ""),
       LC170("Z", "3", "9,00", "") >>

FileB ==
    << L0000("BETA", "33"),
       L0200("A", "Washer"),
       LC100("1", "1", "100", "12032024", "10,00", "1"),
       LC170("A", "4", "8,00", "") >>

FileNoDocs ==
    << L0000("ACME", "11.222"),
       L0200("A", "Widget"),
       LC100("0", "1", "200", "10032024", "70,00", "0"),
       LC170("A", "1", "70,00", "") >>

FileNoCnpj ==
    << L0000("ANON", ""),
       L0200("A", "Widget"),
       LC100("1", "1", "100", "10032024", "121,00", "0"),
       LC170("A", "1", "100,00", "") >>

FileBlankCnpj ==
    << L0000("ANON", "  "),
       L0200("A", "Widget"),
       LC100("1", "1", "100", "10032024", "121,00", "0"),
       LC170("A", "1", "100,00", "") >>

\* A later file of the first company: a new product, a document paid by
\* other means, a header whose date names no calendar day (31 February)
\* followed by an item line, one more document after it, and a header
\* whose date is not a date.
FileErr ==
    << L0000("ACME", "11222"),
       L0200("C", "Nut"),
       LC100("1", "1", "300", "20032024", "40,00", "2"),
       LC170("C", "1", "40,00", ""),
       LC100("1", "1", "400", "31022024", "90,00", "0"),
       LC170("C", "2", "15,00", ""),
       LC100("1", "1", "500", "05042024", "25,00", "1"),
       LC170("C", "1", "25,00", ""),
       LC100("1", "1", "600", "3213", "5,00", "0") >>

Files == {FileA, FileDup, FileB, FileErr, FileNoDocs, FileNoCnpj, FileBlankCnpj}

(***************************************************************************)
(* State.                                                                  *)
(*   lines, num_linha, parser, dedup: one run of the parser over a file    *)
(*     (the line loop and the deduplication that follows it).              *)
(*   db: the committed contents of the SQLite database, one set of rows    *)
(*     per table.                                                          *)
(*   writer, pending: SQLite has one write transaction at a time; writer   *)
(*     is the request holding it (0 = nobody) and pending its uncommitted  *)
(*     view of the database.                                               *)
(*   proc: the position and the local variables of each import request.    *)
(*   imports: number of imports started (bounded by MaxImports).           *)
(*   last_import: the import that returned last, when no other operation   *)
(*     has run since (history).                                            *)
(*   resp: the response of the classification or report request being      *)
(*     answered.                                                           *)
(*   rateio: one call of _calcular_valor_com_rateio, its arguments and its *)
(*     result.                                                             *)
(*   agora: the clock, in minutes.                                         *)
(*   login: the browser session of the login form: failed_attempts (the    *)
(*     session's dict, one record per key), autenticado, and the history   *)
(*     of the requests: tentativa (the last login request and its          *)
(*     outcome) and recusados (the usernames whose right password was      *)
(*     refused by a lockout).                                              *)
(*   limiter: rate_limit_storage (one deque of timestamps per key),        *)
(*     _last_cleanup, and the history of the requests: admitidos (how many *)
(*     requests were admitted, by client, endpoint and minute), ultimo     *)
(*     (the last request) and pedidos (their number).                      *)
(***************************************************************************)
VARIABLES lines, num_linha, parser, dedup,
          db, writer, pending, proc, imports, last_import,
          resp, rateio,
          agora, login, limiter

parseVars == <<lines, num_linha, parser, dedup>>

dbVars == <<db, writer, pending>>

importVars == <<proc, imports, last_import>>

callVars == <<resp, rateio>>

webVars == <<agora, login, limiter>>

vars == <<parseVars, dbVars, importVars, callVars, webVars>>

Procs == {1, 2}

ParseIdle ==
    /\ lines = <<>>
    /\ num_linha = 1
    /\ parser = ParserInit
    /\ dedup = None

EmptyDb ==
    [empresas |-> {}, produtos |-> {}, documentos |-> {}, vendas |-> {},
     cfops |-> {}, acumuladores |-> {}]

SetMax(S) == CHOOSE x \in S : \A y \in S : y <= x

\* Integer primary key of the next row of a table.
NextId(tab) == IF tab = {} THEN 1 ELSE SetMax({r.id : r \in tab}) + 1

Min(a, b) == IF a < b THEN a ELSE b

(***************************************************************************)
(* insert(...).values(chunk).on_conflict_do_nothing(index_elements=...):   *)
(* a row whose unique key is already present is skipped, the rows present  *)
(* are left as they are.                                                   *)
(***************************************************************************)
SameProduto(r, row) == r.empresa_id = row.empresa_id /\ r.codigo_item = row.codigo_item

SameDocumento(r, row) ==
    /\ r.empresa_id = row.empresa_id
    /\ r.num_documento = row.num_documento
    /\ r.serie = row.serie

\* Mutant: sale items carry no unique constraint.
SameVenda_none(r, row) == FALSE

SameVenda(r, row) == r.documento_id = row.documento_id /\ r.produto_id = row.produto_id

\* The unique constraint of each table that ON CONFLICT DO NOTHING tests.
SameKey(tabela, r, row) ==
    CASE tabela = "produtos"   -> SameProduto(r, row)
      [] tabela = "documentos" -> SameDocumento(r, row)
      [] tabela = "vendas"     -> SameVenda(r, row)

\* Mutant: a plain INSERT, with no ON CONFLICT clause and no constraint.
InsertOrIgnore_append(tab, rows, tabela) ==
    LET n == Len(rows)
        acc[i \in 0..n] ==
            IF i = 0 THEN tab
            ELSE acc[i - 1] \cup {[id |-> NextId(acc[i - 1])] @@ rows[i]}
    IN  acc[n]

\* Mutant: on conflict the new values replace the stored row.
InsertOrIgnore_replace(tab, rows, tabela) ==
    LET n == Len(rows)
        acc[i \in 0..n] ==
            IF i = 0 THEN tab
            ELSE LET t == acc[i - 1]
                     hit == {r \in t : SameKey(tabela, r, rows[i])}
                 IN  IF hit # {}
                     THEN (t \ hit) \cup {[id |-> r.id] @@ rows[i] : r \in hit}
                     ELSE t \cup {[id |-> NextId(t)] @@ rows[i]}
    IN  acc[n]

InsertOrIgnore(tab, rows, tabela) ==
    LET n == Len(rows)
        acc[i \in 0..n] ==
            IF i = 0 THEN tab
            ELSE LET t == acc[i - 1]
                 IN  IF \E r \in t : SameKey(tabela, r, rows[i]) THEN t
                     ELSE t \cup {[id |-> NextId(t)] @@ rows[i]}
    IN  acc[n]

produto_chunk_size == 50

doc_chunk_size == 50

venda_chunk_size == 50

\* for i in range(0, len(rows), size): session.execute(insert of rows[i:i+size])
InsertChunked(tab, rows, size, tabela) ==
    LET n == Len(rows)
        nchunks == (n + size - 1) \div size
        acc[c \in 0..nchunks] ==
            IF c = 0 THEN tab
            ELSE InsertOrIgnore(acc[c - 1],
                                SubSeq(rows, (c - 1) * size + 1, Min(c * size, n)),
                                tabela)
    IN  acc[nchunks]

(***************************************************************************)
(* import_sped_file.  The local variables of one request are a record l;   *)
(* l.pc is its position:                                                   *)
(*   idle -> resolve -> (create) -> check -> count -> produtos ->          *)
(*   documentos -> map -> vendas -> commit -> recount -> done              *)
(* Each step is an operator of l and of d, the database as the request's   *)
(* session sees it.  It returns the new locals, the new view and what the  *)
(* step did to the transaction:                                            *)
(*   "none" (reads only), "write" (a statement ran in the write            *)
(*   transaction), "commit", "rollback".                                   *)
(* l.inseridos (history) counts the rows the request's own statements      *)
(* have inserted in its transaction.                                       *)
(***************************************************************************)
IdleProc ==
    [pc |-> "idle", file |-> <<>>, sel |-> 0,
     produtos |-> <<>>, documentos |-> <<>>, vendas |-> <<>>, erros |-> <<>>,
     empresa_sped |-> ParserInit.empresa_sped,
     empresa_id |-> 0, is_new |-> FALSE,
     antes |-> [docs |-> 0, produtos |-> 0, vendas |-> 0],
     doc_map |-> <<>>, produto_map |-> <<>>,
     result |-> None, falha |-> "none", race |-> FALSE, db0 |-> EmptyDb,
     inseridos |-> [docs |-> 0, produtos |-> 0, vendas |-> 0]]

Ret(l, d, tx) == [l |-> l, d |-> d, tx |-> tx]

Failure(msg) ==
    Some([ok |-> FALSE, msg |-> msg, empresa_id |-> None, nova_empresa |-> FALSE,
          novos_docs |-> 0, novos_produtos |-> 0, novas_vendas |-> 0, avisos |-> 0])

\* "if not documentos and not vendas"
SemDocumentos(documentos, vendas) == documentos = <<>> /\ vendas = <<>>

\* Mutant: only a missing field counts, a blank one does not.
SemCnpj_none(empresa_sped) == empresa_sped.cnpj = None

\* "if not empresa_sped.get('cnpj')": None or the empty string
SemCnpj(empresa_sped) == empresa_sped.cnpj = None \/ empresa_sped.cnpj[1] = ""

\* The value of a one-element set.  Only({e(x) : x \in {v}}) is e(v) with v
\* computed once.
Only(S) == CHOOSE y \in S : TRUE

\* Deduplication and the two structural rejections (lines 220-245) on the
\* parser's output st; d0 is the committed database when the request starts
\* (history only).
Begin(st, f, s, d0) ==
    LET produtos   == DedupProdutos(st.produtos_raw)
        documentos == DedupDocumentos(st.documentos_raw)
        vendas     == DedupVendas(st.vendas_raw)
        started    == [IdleProc EXCEPT !.file = f, !.sel = s,
                          !.produtos = produtos, !.documentos = documentos,
                          !.vendas = vendas, !.erros = st.erros,
                          !.empresa_sped = st.empresa_sped, !.db0 = d0]
    IN  IF SemDocumentos(documentos, vendas)
        THEN [started EXCEPT !.pc = "done", !.result = Failure("sem_documentos")]
        ELSE IF SemCnpj(st.empresa_sped)
        THEN [started EXCEPT !.pc = "done", !.result = Failure("sem_cnpj")]
        ELSE [started EXCEPT !.pc = "resolve"]

\* The line loop over the file, then Begin (lines 84-245).
StepBegin(f, s, d0) == Only({Begin(st, f, s, d0) : st \in {ParseFile(f)}})

\* get_or_create_empresa: cnpj_limpo and the lookup by it (lines 169-175).
cnpj_limpo(l) == OnlyDigits(l.empresa_sped.cnpj[1])

EmpresaByCnpj(d, cnpj) == {e \in d.empresas : e.cnpj = cnpj}

StepResolve(l, d) ==
    LET found == EmpresaByCnpj(d, cnpj_limpo(l))
    IN  IF found # {}
        THEN Ret([l EXCEPT !.pc = "check", !.is_new = FALSE,
                           !.empresa_id = (CHOOSE e \in found : TRUE).id], d, "none")
        ELSE Ret([l EXCEPT !.pc = "create"], d, "none")

\* Mutant: the IntegrityError is not handled and ends the import.
StepCreate_raise(l, d) ==
    LET found == EmpresaByCnpj(d, cnpj_limpo(l))
        nova  == [id |-> NextId(d.empresas),
                  cnpj |-> cnpj_limpo(l),
                  razao_social |-> l.empresa_sped.razao_social,
                  inscricao_estadual |-> l.empresa_sped.inscricao_estadual,
                  uf |-> l.empresa_sped.uf]
    IN  IF found # {}
        THEN Ret([l EXCEPT !.pc = "done", !.race = TRUE, !.falha = "create",
                           !.result = Failure("erro_banco")],
                 d, "rollback")
        ELSE Ret([l EXCEPT !.pc = "check", !.is_new = TRUE, !.empresa_id = nova.id],
                 [d EXCEPT !.empresas = @ \cup {nova}], "write")

\* get_or_create_empresa: db.add + db.flush (lines 178-202).  The INSERT
\* runs in the write transaction.  A row with the same cnpj (committed by
\* a competing request since the lookup) is an IntegrityError: rollback,
\* re-read, return (empresa, False).
StepCreate(l, d) ==
    LET found == EmpresaByCnpj(d, cnpj_limpo(l))
        nova  == [id |-> NextId(d.empresas),
                  cnpj |-> cnpj_limpo(l),
                  razao_social |-> l.empresa_sped.razao_social,
                  inscricao_estadual |-> l.empresa_sped.inscricao_estadual,
                  uf |-> l.empresa_sped.uf]
    IN  IF found # {}
        THEN Ret([l EXCEPT !.pc = "check", !.is_new = FALSE, !.race = TRUE,
                           !.empresa_id = (CHOOSE e \in found : TRUE).id],
                 d, "rollback")
        ELSE Ret([l EXCEPT !.pc = "check", !.is_new = TRUE, !.empresa_id = nova.id],
                 [d EXCEPT !.empresas = @ \cup {nova}], "write")

\* Mutant: the selected company is checked for new companies too.
Mismatch_always(is_new, sel, empresa_id) == sel # 0 /\ empresa_id # sel

\* Lines 261-283: the file's company is compared with the selected one only
\* when the company already existed.
Mismatch(is_new, sel, empresa_id) == ~is_new /\ sel # 0 /\ empresa_id # sel

\* Returning from inside "with get_db()" closes the session.
StepCheck(l, d) ==
    IF Mismatch(l.is_new, l.sel, l.empresa_id)
    THEN Ret([l EXCEPT !.pc = "done", !.result = Failure("empresa_diferente")],
             d, "rollback")
    ELSE Ret([l EXCEPT !.pc = "count"], d, "none")

\* The three counts for one company (lines 286-301 and 407-422).
Contagem(d, empresa_id) ==
    [docs     |-> Cardinality({x \in d.documentos : x.empresa_id = empresa_id}),
     produtos |-> Cardinality({x \in d.produtos : x.empresa_id = empresa_id}),
     vendas   |-> Cardinality({v \in d.vendas :
                     \E x \in d.documentos :
                        x.id = v.documento_id /\ x.empresa_id = empresa_id})]

StepCount(l, d) ==
    Ret([l EXCEPT !.pc = "produtos", !.antes = Contagem(d, l.empresa_id)], d, "none")

ProdutoRows(produtos, empresa_id) ==
    [i \in 1..Len(produtos) |->
        produtos[i] @@ [empresa_id |-> empresa_id, acumulador_id |-> None]]

\* 1. products (lines 306-320)
StepProdutos(l, d) ==
    IF l.produtos # <<>>
    THEN Ret([l EXCEPT !.pc = "documentos"],
             [d EXCEPT !.produtos =
                 InsertChunked(@, ProdutoRows(l.produtos, l.empresa_id),
                               produto_chunk_size, "produtos")],
             "write")
    ELSE Ret([l EXCEPT !.pc = "documentos"], d, "none")

DocumentoRows(documentos, empresa_id) ==
    [i \in 1..Len(documentos) |-> documentos[i] @@ [empresa_id |-> empresa_id]]

\* 2. fiscal documents, then session.flush() (lines 323-343)
StepDocumentos(l, d) ==
    IF l.documentos # <<>>
    THEN Ret([l EXCEPT !.pc = "map"],
             [d EXCEPT !.documentos =
                 InsertChunked(@, DocumentoRows(l.documentos, l.empresa_id),
                               doc_chunk_size, "documentos")],
             "write")
    ELSE Ret([l EXCEPT !.pc = "map"], d, "none")

\* 3. natural key -> id maps of the company (lines 346-365); a map is a
\* function and map.get(k) is 0 (None) outside its domain.
DocMap(d, empresa_id) ==
    LET rows == {x \in d.documentos : x.empresa_id = empresa_id}
    IN  [k \in {<<x.num_documento, x.serie>> : x \in rows} |->
            (CHOOSE x \in rows : <<x.num_documento, x.serie>> = k).id]

\* Mutant: the product map is built from the products of every company.
ProdutoMap_all(d, empresa_id) ==
    LET rows == d.produtos
    IN  [k \in {x.codigo_item : x \in rows} |->
            (CHOOSE x \in rows :
                /\ x.codigo_item = k
                /\ \A y \in rows : y.codigo_item = k => x.id <= y.id).id]

ProdutoMap(d, empresa_id) ==
    LET rows == {x \in d.produtos : x.empresa_id = empresa_id}
    IN  [k \in {x.codigo_item : x \in rows} |->
            (CHOOSE x \in rows : x.codigo_item = k).id]

MapGet(map, k) == IF k \in DOMAIN map THEN map[k] ELSE 0

\* Mutant: the maps are read before the inserts of this import.
StepMap_stale(l, d) ==
    Ret([l EXCEPT !.pc = "vendas",
                  !.doc_map = DocMap(l.db0, l.empresa_id),
                  !.produto_map = ProdutoMap(l.db0, l.empresa_id)], d, "none")

StepMap(l, d) ==
    Ret([l EXCEPT !.pc = "vendas",
                  !.doc_map = DocMap(d, l.empresa_id),
                  !.produto_map = ProdutoMap(d, l.empresa_id)], d, "none")

\* 4. vendas_com_fk: the sale items whose document and product resolve
\* (lines 368-390).
VendasComFk(vendas, doc_map, produto_map) ==
    LET n == Len(vendas)
        acc[i \in 0..n] ==
            IF i = 0 THEN <<>>
            ELSE LET venda      == vendas[i]
                     doc_id     == MapGet(doc_map, <<venda.num_documento, venda.serie>>)
                     produto_id == MapGet(produto_map, venda.codigo_item)
                 IN  IF doc_id # 0 /\ produto_id # 0
                     THEN Append(acc[i - 1],
                            [documento_id   |-> doc_id,
                             produto_id     |-> produto_id,
                             data           |-> venda.data,
                             quantidade     |-> venda.quantidade,
                             valor_unitario |-> venda.valor_unitario,
                             valor_total    |-> venda.valor_total,
                             valor_desconto |-> venda.valor_desconto,
                             base_icms      |-> venda.base_icms,
                             valor_icms     |-> venda.valor_icms,
                             aliquota_icms  |-> venda.aliquota_icms])
                     ELSE acc[i - 1]
    IN  acc[n]

\* 4. sale items (lines 368-402)
StepVendas(l, d) ==
    LET rows == VendasComFk(l.vendas, l.doc_map, l.produto_map)
    IN  IF l.vendas # <<>> /\ rows # <<>>
        THEN Ret([l EXCEPT !.pc = "commit"],
                 [d EXCEPT !.vendas =
                     InsertChunked(@, rows, venda_chunk_size, "vendas")],
                 "write")
        ELSE Ret([l EXCEPT !.pc = "commit"], d, "none")

\* session.commit() (line 404)
StepCommit(l, d) == Ret([l EXCEPT !.pc = "recount"], d, "commit")

\* Final counts and the success message (lines 407-432).
StepRecount(l, d) ==
    LET depois == Contagem(d, l.empresa_id)
    IN  Ret([l EXCEPT !.pc = "done",
                      !.result = Some(
                         [ok |-> TRUE, msg |-> "importado",
                          empresa_id |-> Some(l.empresa_id),
                          nova_empresa |-> l.is_new,
                          novos_docs |-> depois.docs - l.antes.docs,
                          novos_produtos |-> depois.produtos - l.antes.produtos,
                          novas_vendas |-> depois.vendas - l.antes.vendas,
                          avisos |-> Len(l.erros)])],
            d, "none")

\* The statement at l.pc, run against the view d.
ImportStepFn(l, d) ==
    CASE l.pc = "resolve"    -> StepResolve(l, d)
      [] l.pc = "create"     -> StepCreate(l, d)
      [] l.pc = "check"      -> StepCheck(l, d)
      [] l.pc = "count"      -> StepCount(l, d)
      [] l.pc = "produtos"   -> StepProdutos(l, d)
      [] l.pc = "documentos" -> StepDocumentos(l, d)
      [] l.pc = "map"        -> StepMap(l, d)
      [] l.pc = "vendas"     -> StepVendas(l, d)
      [] l.pc = "commit"     -> StepCommit(l, d)
      [] l.pc = "recount"    -> StepRecount(l, d)

\* "except Exception: session.rollback(); return False, ..., None"
\* (lines 434-439); l.falha records the step that raised.
StepExcept(l) ==
    [l EXCEPT !.pc = "done", !.falha = l.pc, !.result = Failure("erro_banco"),
              !.inseridos = IdleProc.inseridos]

\* The steps of the write transaction at which an exception may be raised.
FailPoints == {"resolve", "create", "count", "produtos", "documentos", "map",
               "vendas", "commit"}

\* The locals after the step that returned r ran against the view d, with
\* the rows the step inserted added to the history l.inseridos; a rollback
\* discards the rows inserted so far.
Passo(r, d) ==
    LET e      == r.l.empresa_id
        antes  == Contagem(d, e)
        depois == Contagem(r.d, e)
    IN  CASE r.tx = "write" ->
               [r.l EXCEPT !.inseridos =
                   [docs     |-> @.docs + depois.docs - antes.docs,
                    produtos |-> @.produtos + depois.produtos - antes.produtos,
                    vendas   |-> @.vendas + depois.vendas - antes.vendas]]
          [] r.tx = "rollback" -> [r.l EXCEPT !.inseridos = IdleProc.inseridos]
          [] OTHER -> r.l

(***************************************************************************)
(* The body of "with get_db() as session" run from position l.pc to the    *)
(* return, with no other request in between.  committed is the database,   *)
(* view the session's view of it; an exception is raised when the request  *)
(* reaches the step fail_at ("none": no exception).                        *)
(***************************************************************************)
\* Mutant: what the session wrote before the exception is kept.
RECURSIVE RunImport_partial(_, _, _, _)
RunImport_partial(l, committed, view, fail_at) ==
    IF l.pc = "done" THEN [l |-> l, db |-> committed]
    ELSE IF l.pc = fail_at THEN [l |-> StepExcept(l), db |-> view]
    ELSE Only({CASE r.tx = "write"    -> RunImport_partial(Passo(r, view), committed, r.d, fail_at)
                 [] r.tx = "commit"   -> RunImport_partial(r.l, r.d, r.d, fail_at)
                 [] r.tx = "rollback" -> RunImport_partial(Passo(r, view), committed, committed, fail_at)
                 [] OTHER             -> RunImport_partial(r.l, committed, r.d, fail_at)
               : r \in {ImportStepFn(l, view)}})

RECURSIVE RunImport(_, _, _, _)
RunImport(l, committed, view, fail_at) ==
    IF l.pc = "done" THEN [l |-> l, db |-> committed]
    ELSE IF l.pc = fail_at THEN [l |-> StepExcept(l), db |-> committed]
    ELSE Only({CASE r.tx = "write"    -> RunImport(Passo(r, view), committed, r.d, fail_at)
                 [] r.tx = "commit"   -> RunImport(r.l, r.d, r.d, fail_at)
                 [] r.tx = "rollback" -> RunImport(Passo(r, view), committed, committed, fail_at)
                 [] OTHER             -> RunImport(r.l, committed, r.d, fail_at)
               : r \in {ImportStepFn(l, view)}})

(***************************************************************************)
(* Sequential loader: requests are served one at a time.                   *)
(***************************************************************************)
\* The company selected in the caller's session: none (0) or a registered
\* one (selecionar_empresa, importar_sped).
Selecoes == {0} \cup {e.id : e \in db.empresas}

\* import_sped_file(file, empresa_selecionada_id), run to its return; an
\* exception is raised when the request reaches step fail_at ("none": no
\* exception).
Import(p, f, s, fail_at) ==
    /\ proc[p].pc = "idle"
    /\ resp = None
    /\ imports < MaxImports
    /\ imports' = imports + 1
    /\ \E l0 \in {StepBegin(f, s, db)} :
       \E r \in {RunImport(l0, db, db, fail_at)} :
          /\ proc' = [proc EXCEPT ![p] = r.l]
          /\ db' = r.db
    /\ UNCHANGED <<parseVars, writer, pending, last_import, callVars, webVars>>

\* The request returns its (success, message, empresa_id) tuple.
ImportReturn(p) ==
    /\ proc[p].pc = "done"
    /\ last_import' = Some([file |-> proc[p].file, sel |-> proc[p].sel,
                            result |-> proc[p].result[1]])
    /\ proc' = [proc EXCEPT ![p] = IdleProc]
    /\ UNCHANGED <<parseVars, dbVars, imports, callVars, webVars>>

\* The database as init_db leaves it, and no request running.
ImportIdle ==
    /\ db = EmptyDb
    /\ writer = 0
    /\ pending = EmptyDb
    /\ proc = [p \in Procs |-> IdleProc]
    /\ imports = 0
    /\ last_import = None

\* The login form's session before any request: session['failed_attempts']
\* is absent (read as {}), nobody is authenticated.
LoginIdle ==
    [failed_attempts |-> {}, autenticado |-> None,
     tentativa |-> [username |-> "", password |-> "", resultado |-> "",
                    reset |-> FALSE, seq |-> 0],
     recusados |-> {}]

\* rate_limit_storage = defaultdict(lambda: deque()), _last_cleanup = the
\* time the module was loaded.
LimiterIdle ==
    [rate_limit_storage |-> {}, last_cleanup |-> 0,
     admitidos |-> {}, ultimo |-> None, pedidos |-> 0]

WebIdle ==
    /\ agora = 0
    /\ login = LoginIdle
    /\ limiter = LimiterIdle

CallIdle ==
    /\ resp = None
    /\ rateio = None
    /\ WebIdle

Init ==
    /\ ParseIdle
    /\ ImportIdle
    /\ CallIdle

Next ==
    \/ \E f \in Files, s \in Selecoes, fail_at \in FailPoints \cup {"none"} :
          Import(1, f, s, fail_at)
    \/ ImportReturn(1)

Spec == Init /\ [][Next]_vars

(***************************************************************************)
(* Parser specification: the line loop and the deduplication run over any  *)
(* file of at most MaxLines lines drawn from ParseLines.                   *)
(***************************************************************************)
\* One iteration of "for num_linha, line in enumerate(lines, 1)".
ParseNextLine ==
    /\ num_linha <= Len(lines)
    /\ parser' = ParseLine(parser, lines[num_linha], num_linha)
    /\ num_linha' = num_linha + 1
    /\ UNCHANGED <<lines, dedup, dbVars, importVars, callVars, webVars>>

\* The three deduplications that follow the loop (lines 221-230).
Deduplicate ==
    /\ num_linha > Len(lines)
    /\ dedup = None
    /\ dedup' = Some([produtos   |-> DedupProdutos(parser.produtos_raw),
                      documentos |-> DedupDocumentos(parser.documentos_raw),
                      vendas     |-> DedupVendas(parser.vendas_raw)])
    /\ UNCHANGED <<lines, num_linha, parser, dbVars, importVars, callVars, webVars>>

InitParse ==
    /\ lines \in SeqsUpTo(ParseLines, MaxLines)
    /\ num_linha = 1
    /\ parser = ParserInit
    /\ dedup = None
    /\ ImportIdle
    /\ CallIdle

NextParse == ParseNextLine \/ Deduplicate

SpecParse == InitParse /\ [][NextParse]_vars

(***************************************************************************)
(* C6  Document gating: a C100 header whose operation indicator is not the *)
(* outbound marker "1", or whose date field is blank, adds no document to  *)
(* the output (and leaves no current document), and every C170 line        *)
(* between that header and the next C100 header is dropped: processing it  *)
(* adds no sale item.                                                      *)
(***************************************************************************)
FieldsOf(line) == Split(Strip(line))

IsReg(line, reg) == Len(FieldsOf(line)) >= 2 /\ F(FieldsOf(line), 1) = reg

\* A C100 line that the claim says must produce nothing.
GatedC100(line) ==
    /\ IsReg(line, "C100")
    /\ \/ F(FieldsOf(line), 2) # "1"
       \/ Strip(F(FieldsOf(line), 10)) = ""

\* Index of the nearest C100 line before line i (0 if none).
HeaderOf(i) ==
    LET hs == {j \in 1..(i - 1) : IsReg(lines[j], "C100")}
    IN  IF hs = {} THEN 0 ELSE SetMax(hs)

C6_DocumentGating ==
    [][num_linha <= Len(lines) =>
        LET line == lines[num_linha]
        IN  /\ GatedC100(line) =>
                 /\ parser'.documentos_raw = parser.documentos_raw
                 /\ parser'.vendas_raw = parser.vendas_raw
                 /\ parser'.current_doc_fiscal = None
            /\ (/\ IsReg(line, "C170")
                /\ HeaderOf(num_linha) # 0
                /\ GatedC100(lines[HeaderOf(num_linha)])) =>
                 /\ parser'.vendas_raw = parser.vendas_raw
                 /\ parser'.documentos_raw = parser.documentos_raw]_vars

\* An outbound document was opened, then a gated header and an item line
\* with a positive quantity were processed, and no sale item came out.
C6_Witness ==
    /\ num_linha = 4
    /\ parser.documentos_raw # <<>>
    /\ GatedC100(lines[2])
    /\ IsReg(lines[3], "C170")
    /\ parse_float(F(FieldsOf(lines[3]), 5)) > 0
    /\ parser.vendas_raw = <<>>

\* The document a C100 line describes (its number, series and date).
BuiltFrom(doc, line) ==
    LET fields == FieldsOf(line)
    IN  /\ Len(fields) > 13
        /\ doc.num_documento = Strip(F(fields, 8))
        /\ doc.serie = (IF F(fields, 7) # "" THEN Strip(F(fields, 7)) ELSE "1")
        /\ strptime(F(fields, 10)).ok
        /\ doc.data = strptime(F(fields, 10)).date

\* C18 (context reset on every document header): after the parser has
\* processed a C100 line, the current-document context is the document
\* built from that line or empty, never a document opened by an earlier
\* C100; so a C170 line that follows an outbound C100 with a non-blank,
\* unparsable date is attached to no document.
C18_ContextReset ==
    [][num_linha <= Len(lines) =>
        LET line == lines[num_linha]
        IN  /\ IsReg(line, "C100") =>
                 \/ parser'.current_doc_fiscal = None
                 \/ BuiltFrom(parser'.current_doc_fiscal[1], line)
            /\ (/\ IsReg(line, "C170")
                /\ HeaderOf(num_linha) # 0
                /\ ~GatedC100(lines[HeaderOf(num_linha)])
                /\ ~strptime(F(FieldsOf(lines[HeaderOf(num_linha)]), 10)).ok) =>
                 parser'.vendas_raw = parser.vendas_raw]_vars

\* Every sale item of vendas has a quantity > 0, a non-blank item code and
\* the number and series of a document of documentos.
VendasBemFormadas(vendas, documentos) ==
    \A i \in 1..Len(vendas) :
        /\ vendas[i].quantidade > 0
        /\ Strip(vendas[i].codigo_item) # ""
        /\ \E j \in 1..Len(documentos) :
              /\ documentos[j].num_documento = vendas[i].num_documento
              /\ documentos[j].serie = vendas[i].serie

Res(p) == proc[p].result[1]

\* Field 7 of the 0000 record the parser takes the company from, <<>> when
\* the file has no such record.
TaxIdField(file) ==
    LET idx == {i \in 1..Len(file) :
                   IsReg(file[i], "0000") /\ Len(FieldsOf(file[i])) >= 9}
    IN  IF idx = {} THEN <<>>
        ELSE <<F(FieldsOf(file[SetMax(idx)]), 7)>>

NoTaxId(file) == TaxIdField(file) = <<>> \/ Strip(TaxIdField(file)[1]) = ""

\* C9 (structural rejection): an import whose deduplicated document and
\* sale-item lists are both empty, or whose header supplies no tax ID,
\* returns failure with no company id and leaves the database as it was.
C9_StructuralRejection ==
    \A p \in Procs :
        (/\ proc[p].pc = "done"
         /\ \/ (proc[p].documentos = <<>> /\ proc[p].vendas = <<>>)
            \/ NoTaxId(proc[p].file))
        => /\ ~Res(p).ok
           /\ Res(p).empresa_id = None
           /\ db = proc[p].db0

\* A file with documents and items but a blank tax ID was rejected while
\* the database already held a company and its rows.
C9_Witness ==
    /\ proc[1].pc = "done"
    /\ proc[1].file = FileBlankCnpj
    /\ proc[1].documentos # <<>>
    /\ Res(1).msg = "sem_cnpj"
    /\ db.empresas # {}
    /\ db.vendas # {}

\* C8 (company mismatch rejection): an import called with a pre-selected
\* company whose file resolves to a different company, already registered
\* or created by this import, returns failure and adds no row.
C8_MismatchRejection ==
    \A p \in Procs :
        (/\ proc[p].pc = "done"
         /\ proc[p].falha = "none"
         /\ proc[p].sel # 0
         /\ proc[p].empresa_id # 0
         /\ proc[p].empresa_id # proc[p].sel)
        => /\ ~Res(p).ok
           /\ db = proc[p].db0

\* C7 (atomic import): when a step of the write transaction raises, the
\* import returns failure and the database equals the database before the
\* import; in particular no company was added.
C7_AtomicImport ==
    \A p \in Procs :
        (proc[p].pc = "done" /\ proc[p].falha # "none")
        => /\ ~Res(p).ok
           /\ Res(p).empresa_id = None
           /\ db = proc[p].db0
           /\ db.empresas = proc[p].db0.empresas

\* The commit raised after the request had created its company and
\* inserted products, documents and sale items.
C7_Witness ==
    /\ proc[1].pc = "done"
    /\ proc[1].falha = "commit"
    /\ proc[1].is_new
    /\ proc[1].produtos # <<>>
    /\ proc[1].documentos # <<>>
    /\ VendasComFk(proc[1].vendas, proc[1].doc_map, proc[1].produto_map) # <<>>
    /\ EmpresaByCnpj(db, cnpj_limpo(proc[1])) = {}

\* ded holds one record per key of raw, each the last occurrence of its
\* key; rawKeys and dedKeys are the keys of the records of raw and ded.
LastWins(raw, rawKeys, ded, dedKeys) ==
    /\ \A i \in 1..Len(raw) : \E j \in 1..Len(ded) : dedKeys[j] = rawKeys[i]
    /\ \A j1, j2 \in 1..Len(ded) : dedKeys[j1] = dedKeys[j2] => j1 = j2
    /\ \A j \in 1..Len(ded) :
          \E i \in 1..Len(raw) :
             /\ raw[i] = ded[j]
             /\ rawKeys[i] = dedKeys[j]
             /\ \A m \in (i + 1)..Len(raw) : rawKeys[m] # dedKeys[j]

ProdutoKeys(rs) == [i \in 1..Len(rs) |-> rs[i].codigo_item]

DocumentoKeys(rs) == [i \in 1..Len(rs) |-> <<rs[i].num_documento, rs[i].serie>>]

VendaKeys(rs) ==
    [i \in 1..Len(rs) |-> <<rs[i].num_documento, rs[i].serie, rs[i].codigo_item>>]

DedupLastWins(l) ==
    LET st == ParseFile(l.file)
    IN  /\ LastWins(st.produtos_raw, ProdutoKeys(st.produtos_raw),
                    l.produtos, ProdutoKeys(l.produtos))
        /\ LastWins(st.documentos_raw, DocumentoKeys(st.documentos_raw),
                    l.documentos, DocumentoKeys(l.documentos))
        /\ LastWins(st.vendas_raw, VendaKeys(st.vendas_raw),
                    l.vendas, VendaKeys(l.vendas))

\* The natural key of a stored sale item and the stored items of a key.
VendaRowKey(d, v) ==
    LET doc  == CHOOSE x \in d.documentos : x.id = v.documento_id
        prod == CHOOSE x \in d.produtos : x.id = v.produto_id
    IN  <<doc.num_documento, doc.serie, prod.codigo_item>>

VendaRowsOf(d, key) == {v \in d.vendas : VendaRowKey(d, v) = key}

StoredAs(v, venda) ==
    /\ v.data = venda.data
    /\ v.quantidade = venda.quantidade
    /\ v.valor_unitario = venda.valor_unitario
    /\ v.valor_total = venda.valor_total
    /\ v.valor_desconto = venda.valor_desconto
    /\ v.base_icms = venda.base_icms
    /\ v.valor_icms = venda.valor_icms
    /\ v.aliquota_icms = venda.aliquota_icms

\* Positions of the raw sale items that repeat an earlier key and are the
\* last of it.
LastOfRepeated(raw) ==
    {i \in 1..Len(raw) :
        /\ \E j \in 1..(i - 1) : VendaKey(raw[j]) = VendaKey(raw[i])
        /\ \A m \in (i + 1)..Len(raw) : VendaKey(raw[m]) # VendaKey(raw[i])}

Declared(st, codigo_item) ==
    \E k \in 1..Len(st.produtos_raw) : st.produtos_raw[k].codigo_item = codigo_item

C1_IdempotentImport ==
    \A p \in Procs :
        (/\ proc[p].pc = "done"
         /\ proc[p].falha = "none"
         /\ last_import # None
         /\ last_import[1].file = proc[p].file
         /\ last_import[1].result.ok
         /\ last_import[1].sel \in {0, last_import[1].result.empresa_id[1]}
         /\ proc[p].sel \in {0, last_import[1].result.empresa_id[1]})
        => /\ Res(p).ok
           /\ Res(p).empresa_id = last_import[1].result.empresa_id
           /\ ~Res(p).nova_empresa
           /\ Res(p).novos_docs = 0
           /\ Res(p).novos_produtos = 0
           /\ Res(p).novas_vendas = 0
           /\ db = proc[p].db0

\* The file with a document and two items was imported twice in a row, the
\* second time with its own company selected.
C1_Witness ==
    /\ proc[1].pc = "done"
    /\ proc[1].falha = "none"
    /\ last_import # None
    /\ last_import[1].file = proc[1].file
    /\ last_import[1].result.ok
    /\ last_import[1].result.novas_vendas > 0
    /\ proc[1].sel # 0
    /\ proc[1].sel = proc[1].empresa_id
    /\ Res(1).ok
    /\ db.vendas # {}

(***************************************************************************)
(* Exact arithmetic.  A quotient is a fraction [num, den] in lowest terms  *)
(* with den > 0; amounts are integers (hundredths).                        *)
(***************************************************************************)
Abs(n) == IF n < 0 THEN 0 - n ELSE n

RECURSIVE GCD(_, _)
GCD(a, b) == IF b = 0 THEN a ELSE GCD(b, a % b)

Frac(n, d) ==
    LET g == GCD(Abs(n), Abs(d))
    IN  IF d < 0 THEN [num |-> (0 - n) \div g, den |-> (0 - d) \div g]
        ELSE [num |-> n \div g, den |-> d \div g]

RInt(n) == [num |-> n, den |-> 1]

RAdd(a, b) == Frac(a.num * b.den + b.num * a.den, a.den * b.den)

RECURSIVE RSum(_)
RSum(fs) == IF fs = <<>> THEN RInt(0) ELSE RAdd(Head(fs), RSum(Tail(fs)))

(***************************************************************************)
(* _calcular_valor_com_rateio(session, vendas_query).  vendas is the list  *)
(* of sale items the query returned and doc_total[id] the declared total   *)
(* of document id (venda.documento_rel.valor_total).                       *)
(***************************************************************************)
\* The keys of documentos_map in insertion order (lines 1005-1010).
RECURSIVE DocOrder(_, _)
DocOrder(vendas, seen) ==
    IF vendas = <<>> THEN seen
    ELSE IF \E k \in 1..Len(seen) : seen[k] = Head(vendas).documento_id
         THEN DocOrder(Tail(vendas), seen)
         ELSE DocOrder(Tail(vendas), Append(seen, Head(vendas).documento_id))

\* documentos_map[doc_id]["itens"]
ItensDoc(vendas, doc_id) == SelectSeq(vendas, LAMBDA v : v.documento_id = doc_id)

RECURSIVE SomaItens(_)
SomaItens(itens) ==
    IF itens = <<>> THEN 0 ELSE Head(itens).valor_total + SomaItens(Tail(itens))

\* Mutant: the expenses to apportion are clamped at zero.
RateioItem_clamped(item, soma_itens, valor_total_nota) ==
    LET despesas_totais == IF valor_total_nota - soma_itens < 0 THEN 0
                           ELSE valor_total_nota - soma_itens
        despesas_rateadas ==
            IF soma_itens > 0
            THEN Frac(despesas_totais * item.valor_total, soma_itens)
            ELSE RInt(0)
    IN  [venda |-> item,
         valor_liquido |-> item.valor_total,
         despesas_rateadas |-> despesas_rateadas,
         valor_final |-> RAdd(RInt(item.valor_total), despesas_rateadas)]

\* Mutant: with no positive item sum each item takes the whole overhead.
RateioItem_whole(item, soma_itens, valor_total_nota) ==
    LET despesas_totais == valor_total_nota - soma_itens
        despesas_rateadas ==
            IF soma_itens > 0
            THEN Frac(despesas_totais * item.valor_total, soma_itens)
            ELSE RInt(despesas_totais)
    IN  [venda |-> item,
         valor_liquido |-> item.valor_total,
         despesas_rateadas |-> despesas_rateadas,
         valor_final |-> RAdd(RInt(item.valor_total), despesas_rateadas)]

\* One item of a document (lines 1021-1042).
RateioItem(item, soma_itens, valor_total_nota) ==
    LET despesas_totais == valor_total_nota - soma_itens
        despesas_rateadas ==
            IF soma_itens > 0
            THEN Frac(despesas_totais * item.valor_total, soma_itens)
            ELSE RInt(0)
    IN  [venda |-> item,
         valor_liquido |-> item.valor_total,
         despesas_rateadas |-> despesas_rateadas,
         valor_final |-> RAdd(RInt(item.valor_total), despesas_rateadas)]

RateioDoc(itens, valor_total_nota) ==
    [i \in 1..Len(itens) |-> RateioItem(itens[i], SomaItens(itens), valor_total_nota)]

RECURSIVE RateioDocs(_, _, _)
RateioDocs(doc_ids, vendas, doc_total) ==
    IF doc_ids = <<>> THEN <<>>
    ELSE RateioDoc(ItensDoc(vendas, Head(doc_ids)), doc_total[Head(doc_ids)])
            \o RateioDocs(Tail(doc_ids), vendas, doc_total)

calcular_valor_com_rateio(vendas, doc_total) ==
    RateioDocs(DocOrder(vendas, <<>>), vendas, doc_total)

(***************************************************************************)
(* Apportionment specification: _calcular_valor_com_rateio applied to any  *)
(* list of up to MaxItens items of the documents RateioDocIds.             *)
(***************************************************************************)
MaxItens == 3

RateioDocIds == {1, 2}

RateioTotais == {2000, 5000}

RateioValores == {0 - 1000, 0, 3000}

RateioItens == [documento_id : RateioDocIds, valor_total : RateioValores]

InitRateio ==
    /\ ParseIdle
    /\ ImportIdle
    /\ resp = None
    /\ WebIdle
    /\ \E vendas \in SeqsUpTo(RateioItens, MaxItens) :
       \E doc_total \in [RateioDocIds -> RateioTotais] :
          rateio = Some([vendas |-> vendas, doc_total |-> doc_total, out |-> None])

Ratear ==
    /\ rateio # None
    /\ rateio[1].out = None
    /\ \E out \in {calcular_valor_com_rateio(rateio[1].vendas, rateio[1].doc_total)} :
          rateio' = Some([rateio[1] EXCEPT !.out = Some(out)])
    /\ UNCHANGED <<parseVars, dbVars, importVars, resp, webVars>>

NextRateio == Ratear

SpecRateio == InitRateio /\ [][NextRateio]_vars

\* valor_final of the items of document doc_id in the result out.
FinaisDoc(out, doc_id) ==
    LET sel == SelectSeq(out, LAMBDA r : r.venda.documento_id = doc_id)
    IN  [i \in 1..Len(sel) |-> sel[i].valor_final]

\* C3 (apportionment conservation): for every document whose items have a
\* net-value sum > 0, the final values of its items add up, in exact
\* arithmetic, to the document's declared total, also when the declared
\* total is smaller than the item sum.
C3_RateioConservation ==
    (rateio # None /\ rateio[1].out # None) =>
        \A doc_id \in DOMAIN rateio[1].doc_total :
            LET itens == ItensDoc(rateio[1].vendas, doc_id)
            IN  (itens # <<>> /\ SomaItens(itens) > 0) =>
                   /\ Len(FinaisDoc(rateio[1].out[1], doc_id)) = Len(itens)
                   /\ RSum(FinaisDoc(rateio[1].out[1], doc_id))
                         = RInt(rateio[1].doc_total[doc_id])

\* A document with a negative and two positive items, item sum 5000 above
\* its declared total 2000 (negative overhead), was apportioned.
C3_Witness ==
    /\ rateio # None
    /\ rateio[1].out # None
    /\ \E doc_id \in DOMAIN rateio[1].doc_total :
          LET itens == ItensDoc(rateio[1].vendas, doc_id)
          IN  /\ Len(itens) = 3
              /\ SomaItens(itens) = 5000
              /\ rateio[1].doc_total[doc_id] = 2000
              /\ \E i \in 1..3 : itens[i].valor_total < 0
              /\ \E r \in 1..Len(rateio[1].out[1]) :
                    rateio[1].out[1][r].despesas_rateadas.num < 0

\* C12 (apportionment degenerate case): for a document whose item net-value
\* sum is not > 0 no overhead is allocated to any item: each item's final
\* value is its own net value (0 when the net is 0), whatever the declared
\* total of the document is.
C12_RateioDegenerate ==
    (rateio # None /\ rateio[1].out # None) =>
        \A k \in 1..Len(rateio[1].out[1]) :
            LET r     == rateio[1].out[1][k]
                itens == ItensDoc(rateio[1].vendas, r.venda.documento_id)
            IN  SomaItens(itens) <= 0 =>
                   /\ r.despesas_rateadas = RInt(0)
                   /\ r.valor_final = RInt(r.venda.valor_total)
                   /\ r.venda.valor_total = 0 => r.valor_final = RInt(0)

\* One document with two items of net value 0 and a declared total of
\* 5000, another with a negative item sum, were apportioned.
C12_Witness ==
    /\ rateio # None
    /\ rateio[1].out # None
    /\ Len(rateio[1].out[1]) = 3
    /\ \E doc_id \in DOMAIN rateio[1].doc_total :
          LET itens == ItensDoc(rateio[1].vendas, doc_id)
          IN  /\ Len(itens) = 2
              /\ \A i \in 1..2 : itens[i].valor_total = 0
              /\ rateio[1].doc_total[doc_id] = 5000
    /\ \E doc_id \in DOMAIN rateio[1].doc_total :
          SomaItens(ItensDoc(rateio[1].vendas, doc_id)) < 0
    /\ \A k \in 1..3 : rateio[1].out[1][k].valor_final.den = 1

(***************************************************************************)
(* validators.py.  A validator returns [ok, val]: ok = FALSE stands for    *)
(* ValidationError.  sanitize_input is modelled for texts without control  *)
(* characters and without the characters html.escape rewrites.             *)
(***************************************************************************)
Invalid == [ok |-> FALSE, val |-> None]

Valid(v) == [ok |-> TRUE, val |-> v]

\* str.isdigit()
IsDigit(s) == s # "" /\ AllDigits(s)

\* validate_competencia: None and "" mean no competency; otherwise YYYY-MM
\* with the year in 2000..2050 and the month in 01..12.
validate_competencia(competencia) ==
    IF competencia = None \/ competencia[1] = "" THEN Valid(None)
    ELSE LET c == Strip(competencia[1])
         IN  IF Len(c) > 7 THEN Invalid
             ELSE IF ~(/\ Len(c) = 7
                       /\ AllDigits(SubSeq(c, 1, 4))
                       /\ SubSeq(c, 5, 5) = "-"
                       /\ AllDigits(SubSeq(c, 6, 7))) THEN Invalid
             ELSE IF DigitsVal(SubSeq(c, 1, 4)) < 2000 \/ DigitsVal(SubSeq(c, 1, 4)) > 2050
                  THEN Invalid
             ELSE IF DigitsVal(SubSeq(c, 6, 7)) < 1 \/ DigitsVal(SubSeq(c, 6, 7)) > 12
                  THEN Invalid
             ELSE Valid(Some(c))

\* validate_cfop: four digits, the first one in 1..7.
validate_cfop(cfop) ==
    IF cfop = "" THEN Invalid
    ELSE LET c == Strip(cfop)
         IN  IF Len(c) > 4 \/ ~IsDigit(c) \/ Len(c) # 4 THEN Invalid
             ELSE IF SubSeq(c, 1, 1) \notin {"1", "2", "3", "4", "5", "6", "7"} THEN Invalid
             ELSE Valid(c)

\* The characters of [A-Z0-9_] in code-point order.
CodigoChars == "0123456789ABCDEFGHIJKLMNOPQRSTUVWXYZ_"

RECURSIVE AllIn(_, _)
AllIn(s, chars) == Len(s) = 0 \/ (IndexOf(chars, Head(s)) # 0 /\ AllIn(Tail(s), chars))

\* validate_codigo_acumulador: 3 to 20 characters of [A-Z0-9_].
validate_codigo_acumulador(codigo) ==
    IF codigo = "" THEN Invalid
    ELSE LET c == Strip(codigo)
         IN  IF Len(c) > 20 \/ c = "" \/ ~AllIn(c, CodigoChars) \/ Len(c) < 3 THEN Invalid
             ELSE Valid(c)

\* validate_descricao: 3 to 100 characters.
validate_descricao(descricao) ==
    IF descricao = "" THEN Invalid
    ELSE LET t == Strip(descricao)
         IN  IF Len(t) > 100 \/ Len(t) < 3 THEN Invalid ELSE Valid(t)

(***************************************************************************)
(* Classification: add_cfop, add_acumulador, update_produto_acumulador.    *)
(* Each runs in its own session and commits; requests are served one at a  *)
(* time.  resp is the (success, message) pair returned.                    *)
(***************************************************************************)
Resposta(op, ok, msg) == Some([op |-> op, ok |-> ok, msg |-> msg])

Atendendo == proc[1].pc = "idle" /\ resp = None

AddCfop(cfop, empresa_id) ==
    /\ Atendendo
    /\ LET v == validate_cfop(cfop)
       IN  IF ~v.ok THEN resp' = Resposta("add_cfop", FALSE, "validacao") /\ db' = db
           ELSE IF empresa_id = 0
           THEN resp' = Resposta("add_cfop", FALSE, "empresa_nao_selecionada") /\ db' = db
           ELSE IF \E c \in db.cfops : c.empresa_id = empresa_id /\ c.cfop = v.val
           THEN resp' = Resposta("add_cfop", FALSE, "cfop_ja_cadastrado") /\ db' = db
           ELSE /\ resp' = Resposta("add_cfop", TRUE, "adicionado")
                /\ db' = [db EXCEPT !.cfops = @ \cup
                            {[id |-> NextId(db.cfops), cfop |-> v.val,
                              empresa_id |-> empresa_id]}]
    /\ last_import' = None
    /\ UNCHANGED <<parseVars, writer, pending, proc, imports, rateio, webVars>>

AddAcumulador(codigo, descricao, cfop, empresa_id) ==
    /\ Atendendo
    /\ LET vc == validate_codigo_acumulador(codigo)
           vd == validate_descricao(descricao)
           vf == validate_cfop(cfop)
           cfop_obj == {c \in db.cfops : c.cfop = vf.val /\ c.empresa_id = empresa_id}
       IN  IF ~vc.ok \/ ~vd.ok \/ ~vf.ok
           THEN resp' = Resposta("add_acumulador", FALSE, "validacao") /\ db' = db
           ELSE IF empresa_id = 0
           THEN resp' = Resposta("add_acumulador", FALSE, "empresa_nao_selecionada")
                /\ db' = db
           ELSE IF cfop_obj = {}
           THEN resp' = Resposta("add_acumulador", FALSE, "cfop_inexistente") /\ db' = db
           ELSE IF \E a \in db.acumuladores :
                      a.empresa_id = empresa_id /\ a.codigo = vc.val
           THEN resp' = Resposta("add_acumulador", FALSE, "codigo_ja_cadastrado")
                /\ db' = db
           ELSE /\ resp' = Resposta("add_acumulador", TRUE, "adicionado")
                /\ db' = [db EXCEPT !.acumuladores = @ \cup
                            {[id |-> NextId(db.acumuladores), codigo |-> vc.val,
                              descricao |-> vd.val,
                              cfop_id |-> (CHOOSE c \in cfop_obj : TRUE).id,
                              empresa_id |-> empresa_id]}]
    /\ last_import' = None
    /\ UNCHANGED <<parseVars, writer, pending, proc, imports, rateio, webVars>>

\* Both lookups are .first() of a query filtered by the code alone, with no
\* company and no ORDER BY: any row with the code may be the one returned.
\* With an empty codigo_acumulador the name acumulador is unbound and the
\* handler ends in "except Exception".
UpdateProdutoAcumulador(codigo_produto, codigo_acumulador) ==
    /\ Atendendo
    /\ LET produtos     == {x \in db.produtos : x.codigo_item = codigo_produto}
           acumuladores == {a \in db.acumuladores : a.codigo = codigo_acumulador}
       IN  IF produtos = {}
           THEN resp' = Resposta("update_produto_acumulador", FALSE, "produto_nao_encontrado")
                /\ db' = db
           ELSE IF codigo_acumulador = ""
           THEN resp' = Resposta("update_produto_acumulador", FALSE, "erro_interno")
                /\ db' = db
           ELSE IF acumuladores = {}
           THEN resp' = Resposta("update_produto_acumulador", FALSE,
                                 "acumulador_nao_encontrado")
                /\ db' = db
           ELSE \E produto \in produtos, acumulador \in acumuladores :
                   /\ resp' = Resposta("update_produto_acumulador", TRUE, "atualizado")
                   /\ db' = [db EXCEPT !.produtos = (@ \ {produto}) \cup
                               {[produto EXCEPT !.acumulador_id = Some(acumulador.id)]}]
    /\ last_import' = None
    /\ UNCHANGED <<parseVars, writer, pending, proc, imports, rateio, webVars>>

\* The response is delivered.
Responder ==
    /\ resp # None
    /\ "fase" \in DOMAIN resp[1] => resp[1].fase = "fim"
    /\ resp' = None
    /\ UNCHANGED <<parseVars, dbVars, importVars, rateio, webVars>>

(***************************************************************************)
(* Reports: get_relatorio_vendas and get_relatorio_cfop.  A report returns *)
(* [ok, erro, n, data]: ok = FALSE stands for the exception raised, erro   *)
(* its kind and n the number its message names.                            *)
(***************************************************************************)
RelErro(erro, n) == [ok |-> FALSE, erro |-> erro, n |-> n, data |-> None]

RelOk(data) == [ok |-> TRUE, erro |-> "", n |-> 0, data |-> Some(data)]

DigitChar(n) == SubSeq("0123456789", n + 1, n + 1)

Pad2(n) == DigitChar((n \div 10) % 10) \o DigitChar(n % 10)

Pad4(n) == Pad2(n \div 100) \o Pad2(n % 100)

\* func.strftime("%Y-%m", VendaSped.data)
StrftimeYm(date) == Pad4(date \div 10000) \o "-" \o Pad2((date \div 100) % 100)

\* venda.data.strftime("%d/%m/%Y")
StrftimeDmy(date) ==
    Pad2(date % 100) \o "/" \o Pad2((date \div 100) % 100) \o "/" \o Pad4(date \div 10000)

\* Mutant: the count is never restricted to the company.
produtos_sem_acumulador_all(d, empresa_id) ==
    Cardinality({x \in d.produtos : x.acumulador_id = None})

\* query_prod.count(): products with a null accumulator, of the company
\* when one is given (lines 1056-1063 and 1189-1196).
produtos_sem_acumulador(d, empresa_id) ==
    Cardinality({x \in d.produtos :
                    /\ x.acumulador_id = None
                    /\ empresa_id # 0 => x.empresa_id = empresa_id})

ProdutoRel(d, v) == CHOOSE x \in d.produtos : x.id = v.produto_id

DocumentoRel(d, v) == CHOOSE x \in d.documentos : x.id = v.documento_id

AcumuladorRel(d, produto) == CHOOSE a \in d.acumuladores : a.id = produto.acumulador_id[1]

CfopRel(d, acumulador) == CHOOSE c \in d.cfops : c.id = acumulador.cfop_id

\* The sale items the inner joins keep: product, accumulator (and CFOP when
\* com_cfop) and document exist; company and competency filters.
VendasJoin(d, competencia, empresa_id, com_cfop) ==
    {v \in d.vendas :
        /\ \E x \in d.produtos :
              /\ x.id = v.produto_id
              /\ x.acumulador_id # None
              /\ \E a \in d.acumuladores :
                    /\ a.id = x.acumulador_id[1]
                    /\ com_cfop => \E c \in d.cfops : c.id = a.cfop_id
        /\ \E doc \in d.documentos :
              /\ doc.id = v.documento_id
              /\ empresa_id # 0 => doc.empresa_id = empresa_id
        /\ competencia # None => StrftimeYm(v.data) = competencia[1]}

\* query.all(): the rows in rowid order.
RECURSIVE ById(_)
ById(rows) ==
    IF rows = {} THEN <<>>
    ELSE LET r == CHOOSE x \in rows : \A y \in rows : x.id <= y.id
         IN  <<r>> \o ById(rows \ {r})

DocTotal(d) == [id \in {x.id : x \in d.documentos} |->
                   (CHOOSE x \in d.documentos : x.id = id).valor_total]

\* a < b for strings of CodigoChars (sorted(), list.sort()).
RECURSIVE StrLess(_, _)
StrLess(a, b) ==
    IF b = "" THEN FALSE
    ELSE IF a = "" THEN TRUE
    ELSE IF Head(a) = Head(b) THEN StrLess(Tail(a), Tail(b))
    ELSE IndexOf(CodigoChars, Head(a)) < IndexOf(CodigoChars, Head(b))

RECURSIVE SortStr(_)
SortStr(S) ==
    IF S = {} THEN <<>>
    ELSE LET m == CHOOSE x \in S : \A y \in S \ {x} : StrLess(x, y)
         IN  <<m>> \o SortStr(S \ {m})

\* Mutant: the dates are sorted as the strings dd/mm/YYYY.
RECURSIVE SortInt_dmy(_)
SortInt_dmy(S) ==
    IF S = {} THEN <<>>
    ELSE LET Key(x) == (x % 100) * 1000000 + ((x \div 100) % 100) * 10000 + x \div 10000
             m == CHOOSE x \in S : \A y \in S : Key(x) <= Key(y)
         IN  <<m>> \o SortInt_dmy(S \ {m})

\* vendas_ordenadas.sort(key = strptime(data, "%d/%m/%Y")): calendar order.
RECURSIVE SortInt(_)
SortInt(S) ==
    IF S = {} THEN <<>>
    ELSE LET m == CHOOSE x \in S : \A y \in S : x <= y
         IN  <<m>> \o SortInt(S \ {m})

\* The final values of the items of sel, added up.
SomaFinal(sel) ==
    RSum([i \in 1..Len(sel) |-> sel[i].valor_final])

\* Lines 1097-1171: totals per accumulator code and, inside each, per date.
RelatorioVendasData(d, rat) ==
    LET Cod(r)  == AcumuladorRel(d, ProdutoRel(d, r.venda)).codigo
        codigos == SortStr({Cod(rat[i]) : i \in 1..Len(rat)})
        PorCodigo(c) ==
            LET primeiro == CHOOSE i \in 1..Len(rat) :
                               Cod(rat[i]) = c /\ \A j \in 1..(i - 1) : Cod(rat[j]) # c
                datas == SortInt({rat[i].venda.data : i \in {j \in 1..Len(rat) : Cod(rat[j]) = c}})
            IN  [codigo    |-> c,
                 descricao |-> AcumuladorRel(d, ProdutoRel(d, rat[primeiro].venda)).descricao,
                 total     |-> SomaFinal(SelectSeq(rat, LAMBDA r : Cod(r) = c)),
                 vendas_por_data |->
                    [k \in 1..Len(datas) |->
                        [data  |-> StrftimeDmy(datas[k]),
                         valor |-> SomaFinal(SelectSeq(rat, LAMBDA r :
                                      Cod(r) = c /\ r.venda.data = datas[k]))]]]
        acumuladores == [k \in 1..Len(codigos) |-> PorCodigo(codigos[k])]
    IN  [acumuladores |-> acumuladores,
         total_geral  |-> RSum([k \in 1..Len(acumuladores) |-> acumuladores[k].total])]

get_relatorio_vendas(d, competencia, empresa_id) ==
    LET v == validate_competencia(competencia)
        n == produtos_sem_acumulador(d, empresa_id)
    IN  IF ~v.ok THEN RelErro("validacao", 0)
        ELSE IF n > 0 THEN RelErro("sem_acumulador", n)
        ELSE RelOk(RelatorioVendasData(d,
                calcular_valor_com_rateio(
                    ById(VendasJoin(d, v.val, empresa_id, FALSE)), DocTotal(d))))

\* Lines 1256-1312: one total per CFOP code, sorted by code.
RelatorioCfopData(d, rat) ==
    LET Cod(r)  == CfopRel(d, AcumuladorRel(d, ProdutoRel(d, r.venda))).cfop
        codigos == SortStr({Cod(rat[i]) : i \in 1..Len(rat)})
    IN  [k \in 1..Len(codigos) |->
            [cfop  |-> codigos[k],
             total |-> SomaFinal(SelectSeq(rat, LAMBDA r : Cod(r) = codigos[k]))]]

get_relatorio_cfop(d, competencia, empresa_id) ==
    LET v == validate_competencia(competencia)
        n == produtos_sem_acumulador(d, empresa_id)
    IN  IF ~v.ok THEN RelErro("validacao", 0)
        ELSE IF n > 0 THEN RelErro("sem_acumulador", n)
        ELSE RelOk(RelatorioCfopData(d,
                calcular_valor_com_rateio(
                    ById(VendasJoin(d, v.val, empresa_id, TRUE)), DocTotal(d))))

(***************************************************************************)
(* get_vendas: the sales summary, from the documents alone.                *)
(***************************************************************************)
\* The base query: outbound documents, of the company and of the month
\* when given (lines 1334-1345).
DocumentosSaida(d, competencia, empresa_id) ==
    {x \in d.documentos :
        /\ x.ind_oper = "1"
        /\ empresa_id # 0 => x.empresa_id = empresa_id
        /\ competencia # None => StrftimeYm(x.data) = competencia[1]}

\* session.execute(func.sum(valor_total)).scalar() or 0.0
RECURSIVE SomaValorTotal(_)
SomaValorTotal(rows) ==
    IF rows = {} THEN 0
    ELSE LET x == CHOOSE y \in rows : TRUE
         IN  x.valor_total + SomaValorTotal(rows \ {x})

\* Mutant: every document not paid in cash counts as a term sale.
get_vendas_resto(d, competencia, empresa_id) ==
    LET v    == validate_competencia(competencia)
        docs == DocumentosSaida(d, v.val, empresa_id)
    IN  IF ~v.ok THEN RelErro("validacao", 0)
        ELSE RelOk([total_vendas   |-> SomaValorTotal(docs),
                    vendas_a_vista |-> SomaValorTotal({x \in docs : x.ind_pagamento = "0"}),
                    vendas_a_prazo |-> SomaValorTotal({x \in docs : x.ind_pagamento # "0"})])

get_vendas(d, competencia, empresa_id) ==
    LET v    == validate_competencia(competencia)
        docs == DocumentosSaida(d, v.val, empresa_id)
    IN  IF ~v.ok THEN RelErro("validacao", 0)
        ELSE RelOk([total_vendas   |-> SomaValorTotal(docs),
                    vendas_a_vista |-> SomaValorTotal({x \in docs : x.ind_pagamento = "0"}),
                    vendas_a_prazo |-> SomaValorTotal({x \in docs : x.ind_pagamento = "1"})])

GetVendas(competencia, empresa_id) ==
    /\ Atendendo
    /\ \E out \in {get_vendas(db, competencia, empresa_id)} :
          resp' = Some([op |-> "get_vendas", competencia |-> competencia,
                        empresa_id |-> empresa_id, out |-> out])
    /\ UNCHANGED <<parseVars, dbVars, importVars, rateio, webVars>>

RelatorioVendas(competencia, empresa_id) ==
    /\ Atendendo
    /\ \E out \in {get_relatorio_vendas(db, competencia, empresa_id)} :
          resp' = Some([op |-> "get_relatorio_vendas", competencia |-> competencia,
                        empresa_id |-> empresa_id, out |-> out])
    /\ UNCHANGED <<parseVars, dbVars, importVars, rateio, webVars>>

RelatorioCfop(competencia, empresa_id) ==
    /\ Atendendo
    /\ \E out \in {get_relatorio_cfop(db, competencia, empresa_id)} :
          resp' = Some([op |-> "get_relatorio_cfop", competencia |-> competencia,
                        empresa_id |-> empresa_id, out |-> out])
    /\ UNCHANGED <<parseVars, dbVars, importVars, rateio, webVars>>

(***************************************************************************)
(* Classification and report specification: imports with no company       *)
(* selected, classification requests and report requests, one at a time.   *)
(***************************************************************************)
FilesRel == {FileA, FileDup, FileB, FileErr}

CfopInputs == {"5102", "9102"}

CodigoInputs == {"ACU", "ac"}

ProdutoInputs == {"A", "B"}

Competencias == {None, Some("2024-03"), Some("2024-13")}

NextRel ==
    \/ \E f \in FilesRel : Import(1, f, 0, "none")
    \/ ImportReturn(1)
    \/ \E cfop \in CfopInputs, e \in Selecoes : AddCfop(cfop, e)
    \/ \E codigo \in CodigoInputs, e \in Selecoes :
          AddAcumulador(codigo, "Vendas", "5102", e)
    \/ \E cp \in ProdutoInputs, ca \in {"ACU", ""} : UpdateProdutoAcumulador(cp, ca)
    \/ \E c \in Competencias, e \in Selecoes : RelatorioVendas(c, e)
    \/ \E c \in Competencias, e \in Selecoes : RelatorioCfop(c, e)
    \/ \E c \in Competencias, e \in Selecoes : GetVendas(c, e)
    \/ Responder

SpecRel == Init /\ [][NextRel]_vars

(***************************************************************************)
(* Properties of imports, classification and reports (SpecRel).            *)
(***************************************************************************)
\* C2 (import never overwrites): every Product, FiscalDocument and SaleItem
\* row stored when an import starts is stored, with every field value it
\* had (the product's accumulator link, the document's date and declared
\* total included), when the import returns, also when the file carries a
\* record with the same natural key and other values.
C2_NeverOverwrites ==
    \A p \in Procs :
        proc[p].pc = "done" =>
            /\ proc[p].db0.produtos \subseteq db.produtos
            /\ proc[p].db0.documentos \subseteq db.documentos
            /\ proc[p].db0.vendas \subseteq db.vendas

\* An import returned whose file carries other values for a classified
\* product, for a document and for a sale item that were already stored.
C2_Witness ==
    /\ proc[1].pc = "done"
    /\ Res(1).ok
    /\ \E x \in proc[1].db0.produtos, i \in 1..Len(proc[1].produtos) :
          /\ x.empresa_id = proc[1].empresa_id
          /\ x.codigo_item = proc[1].produtos[i].codigo_item
          /\ x.descricao_item # proc[1].produtos[i].descricao_item
          /\ x.acumulador_id # None
    /\ \E x \in proc[1].db0.documentos, i \in 1..Len(proc[1].documentos) :
          /\ x.empresa_id = proc[1].empresa_id
          /\ x.num_documento = proc[1].documentos[i].num_documento
          /\ x.serie = proc[1].documentos[i].serie
          /\ x.data # proc[1].documentos[i].data
          /\ x.valor_total # proc[1].documentos[i].valor_total
    /\ \E v \in proc[1].db0.vendas, i \in 1..Len(proc[1].vendas) :
          /\ VendaRowKey(proc[1].db0, v) = VendaKeys(proc[1].vendas)[i]
          /\ DocumentoRel(proc[1].db0, v).empresa_id = proc[1].empresa_id
          /\ v.valor_total # proc[1].vendas[i].valor_total

IsReport == resp # None /\ resp[1].op \in {"get_relatorio_vendas", "get_relatorio_cfop"}

\* Products with a null accumulator in the scope of a report request.
SemAcumulador(empresa_id) ==
    Cardinality({x \in db.produtos :
                    x.acumulador_id = None /\ (empresa_id = 0 \/ x.empresa_id = empresa_id)})

\* C4 as claimed (report precondition): each of the two reports raises an
\* error naming the exact number of products with a null accumulator (of
\* the target company, of all companies when none is given) and returns
\* no data when that number is > 0, and returns successfully when it is 0.
C4_ReportPrecondition ==
    IsReport =>
        LET n == SemAcumulador(resp[1].empresa_id)
        IN  IF n > 0
            THEN /\ ~resp[1].out.ok
                 /\ resp[1].out.erro = "sem_acumulador"
                 /\ resp[1].out.n = n
                 /\ resp[1].out.data = None
            ELSE resp[1].out.ok /\ resp[1].out.data # None

\* No competency, or YYYY-MM with the year in 2000..2050 and the month in
\* 01..12.
CompetenciaValida(c) ==
    \/ c = None
    \/ c[1] = ""
    \/ /\ Len(c[1]) = 7
       /\ \A k \in {1, 2, 3, 4, 6, 7} : SubSeq(c[1], k, k) \in Digits
       /\ SubSeq(c[1], 5, 5) = "-"
       /\ DigitsVal(SubSeq(c[1], 1, 4)) \in 2000..2050
       /\ DigitsVal(SubSeq(c[1], 6, 7)) \in 1..12

\* C4 amended: the same for report requests whose competency is absent or
\* well formed; with a malformed competency both reports raise the
\* validation error of the competency, whatever the number is.
C4_ReportPreconditionValid ==
    IsReport =>
        LET n == SemAcumulador(resp[1].empresa_id)
        IN  IF ~CompetenciaValida(resp[1].competencia)
            THEN /\ ~resp[1].out.ok
                 /\ resp[1].out.erro = "validacao"
                 /\ resp[1].out.data = None
            ELSE IF n > 0
            THEN /\ ~resp[1].out.ok
                 /\ resp[1].out.erro = "sem_acumulador"
                 /\ resp[1].out.n = n
                 /\ resp[1].out.data = None
            ELSE resp[1].out.ok /\ resp[1].out.data # None

\* A report for one company was refused naming its one unclassified
\* product while the other company has unclassified products too.
C4_Witness ==
    /\ IsReport
    /\ resp[1].empresa_id # 0
    /\ CompetenciaValida(resp[1].competencia)
    /\ ~resp[1].out.ok
    /\ resp[1].out.n = 1
    /\ SemAcumulador(0) > 1
    /\ \E x \in db.produtos : x.empresa_id = resp[1].empresa_id /\ x.acumulador_id # None

IsGetVendas == resp # None /\ resp[1].op = "get_vendas"

\* The stored documents a summary for (competencia, empresa_id) is about, in
\* id order: outbound, of the company when one is given, dated in the month
\* when one is given.
DocumentosDoResumo(competencia, empresa_id) ==
    ById({x \in db.documentos :
            /\ x.ind_oper = "1"
            /\ empresa_id = 0 \/ x.empresa_id = empresa_id
            /\ \/ competencia = None
               \/ competencia[1] = ""
               \/ x.data \div 100 = DigitsVal(SubSeq(competencia[1], 1, 4)) * 100
                                        + DigitsVal(SubSeq(competencia[1], 6, 7))})

\* The declared totals of the documents of docs paid by one of inds.
RECURSIVE TotalDeclarado(_, _)
TotalDeclarado(docs, inds) ==
    IF docs = <<>> THEN 0
    ELSE (IF Head(docs).ind_pagamento \in inds THEN Head(docs).valor_total ELSE 0)
            + TotalDeclarado(Tail(docs), inds)

\* C14 (sales summary): get_vendas for a company (or none) and a
\* competency returns total_vendas = the sum of the declared totals of the
\* outbound documents of the company dated in the month, vendas_a_vista the
\* same sum over payment indicator "0" and vendas_a_prazo over "1";
\* documents with another indicator count in total_vendas only, and the
\* result is the same with no sale item, product, accumulator or CFOP
\* stored.
C14_SalesSummary ==
    (IsGetVendas /\ CompetenciaValida(resp[1].competencia)) =>
        LET docs == DocumentosDoResumo(resp[1].competencia, resp[1].empresa_id)
            inds == {docs[i].ind_pagamento : i \in 1..Len(docs)}
        IN  /\ resp[1].out.ok
            /\ resp[1].out.data[1].total_vendas = TotalDeclarado(docs, inds)
            /\ resp[1].out.data[1].vendas_a_vista = TotalDeclarado(docs, {"0"})
            /\ resp[1].out.data[1].vendas_a_prazo = TotalDeclarado(docs, {"1"})
            /\ resp[1].out.data[1].total_vendas
                  = resp[1].out.data[1].vendas_a_vista
                    + resp[1].out.data[1].vendas_a_prazo
                    + TotalDeclarado(docs, inds \ {"0", "1"})
            /\ resp[1].out = get_vendas([db EXCEPT !.vendas = {}, !.produtos = {},
                                                   !.acumuladores = {}, !.cfops = {}],
                                        resp[1].competencia, resp[1].empresa_id)

\* The summary of March 2024 of a company with a cash document and a
\* document paid by other means in March and a term document in April,
\* whose sale items add up to other amounts.
C14_Witness ==
    /\ IsGetVendas
    /\ resp[1].competencia = Some("2024-03")
    /\ resp[1].empresa_id # 0
    /\ resp[1].out.ok
    /\ resp[1].out.data[1].vendas_a_vista > 0
    /\ resp[1].out.data[1].vendas_a_prazo = 0
    /\ resp[1].out.data[1].total_vendas > resp[1].out.data[1].vendas_a_vista
    /\ \E x \in db.documentos :
          /\ x.empresa_id = resp[1].empresa_id
          /\ x.ind_pagamento = "1"
          /\ x.data \div 100 = 202404
    /\ db.vendas # {}

(***************************************************************************)
(* By-accumulator report specification: two files of one company, its     *)
(* three products classified under two accumulators, reports by            *)
(* accumulator.                                                            *)
(***************************************************************************)
FilesShape == {FileA, FileErr}

CodigosShape == {"ACU", "AB1"}

ProdutosShape == {"A", "B", "C"}

NextShape ==
    \/ \E f \in FilesShape : Import(1, f, 0, "none")
    \/ ImportReturn(1)
    \/ \E e \in Selecoes \ {0} : AddCfop("5102", e)
    \/ \E codigo \in CodigosShape, e \in Selecoes \ {0} :
          AddAcumulador(codigo, "Vendas", "5102", e)
    \/ \E cp \in ProdutosShape, ca \in CodigosShape : UpdateProdutoAcumulador(cp, ca)
    \/ \E c \in {None, Some("2024-03")}, e \in Selecoes : RelatorioVendas(c, e)
    \/ Responder

SpecShape == Init /\ [][NextShape]_vars

IsRelatorioVendas == resp # None /\ resp[1].op = "get_relatorio_vendas"

\* The calendar day a date text dd/mm/YYYY names, as YYYYMMDD.
DiaDe(t) ==
    DigitsVal(SubSeq(t, 7, 10)) * 10000 + DigitsVal(SubSeq(t, 4, 5)) * 100
        + DigitsVal(SubSeq(t, 1, 2))

\* C15 (by-accumulator report shape): in every report get_relatorio_vendas
\* returns, the accumulators are in ascending code order, one entry per
\* code; the dates of each accumulator are in ascending calendar order, one
\* entry per date; the total of each accumulator is the sum of its per-date
\* values; total_geral is the sum of the accumulator totals.
C15_ReportShape ==
    (IsRelatorioVendas /\ resp[1].out.ok) =>
        LET data == resp[1].out.data[1]
            acs  == data.acumuladores
        IN  /\ \A k \in 1..(Len(acs) - 1) : StrLess(acs[k].codigo, acs[k + 1].codigo)
            /\ \A k \in 1..Len(acs) :
                  LET vpd == acs[k].vendas_por_data
                  IN  /\ vpd # <<>>
                      /\ \A j \in 1..(Len(vpd) - 1) :
                            DiaDe(vpd[j].data) < DiaDe(vpd[j + 1].data)
                      /\ acs[k].total = RSum([j \in 1..Len(vpd) |-> vpd[j].valor])
            /\ data.total_geral = RSum([k \in 1..Len(acs) |-> acs[k].total])

\* A report with two accumulators, one of them with sales on a day of March
\* and on an earlier day of the month of April, and apportioned values.
C15_Witness ==
    /\ IsRelatorioVendas
    /\ resp[1].out.ok
    /\ LET acs == resp[1].out.data[1].acumuladores
       IN  /\ Len(acs) = 2
           /\ \E k \in 1..2 :
                 LET vpd == acs[k].vendas_por_data
                 IN  /\ Len(vpd) >= 2
                     /\ \E j \in 1..(Len(vpd) - 1) :
                           DigitsVal(SubSeq(vpd[j].data, 1, 2))
                              > DigitsVal(SubSeq(vpd[j + 1].data, 1, 2))
           /\ \E k \in 1..2 : acs[k].total # RInt(0)
           /\ resp[1].out.data[1].total_geral # acs[1].total

\* A line whose parsing raises: an outbound C100 of at least 14 fields with
\* a non-blank date field that is not a calendar day in DDMMYYYY.
Raises(line) ==
    /\ IsReg(line, "C100")
    /\ Len(FieldsOf(line)) > 13
    /\ ~GatedC100(line)
    /\ ~strptime(F(FieldsOf(line), 10)).ok

\* The file with its raising lines replaced by blank lines.
SemErros(file) == [i \in 1..Len(file) |-> IF Raises(file[i]) THEN "" ELSE file[i]]

\* C19 (best-effort parsing): every line that raises while being parsed
\* leaves exactly one entry, with its line number and record type, in the
\* error log and adds no product, document or sale item; the other lines
\* are processed as if it were not there; and an import that succeeds
\* reports a warning count equal to the number of raising lines.
C19_BestEffort ==
    \A p \in Procs :
        proc[p].pc = "done" =>
            LET l    == proc[p]
                errs == {i \in 1..Len(l.file) : Raises(l.file[i])}
                st   == ParseFile(SemErros(l.file))
            IN  /\ Len(l.erros) = Cardinality(errs)
                /\ \A i \in errs :
                      \E k \in 1..Len(l.erros) :
                         l.erros[k] = [linha |-> i, reg_type |-> "C100"]
                /\ l.produtos = DedupProdutos(st.produtos_raw)
                /\ l.documentos = DedupDocumentos(st.documentos_raw)
                /\ l.vendas = DedupVendas(st.vendas_raw)
                /\ Res(p).ok => Res(p).avisos = Cardinality(errs)

\* The file with two raising lines was imported: success with two
\* warnings, and the document that follows the first raising line stored.
C19_Witness ==
    /\ proc[1].pc = "done"
    /\ Cardinality({i \in 1..Len(proc[1].file) : Raises(proc[1].file[i])}) = 2
    /\ Res(1).ok
    /\ Res(1).avisos = 2
    /\ Res(1).novos_docs = 2
    /\ \E x \in db.documentos : x.num_documento = "500"
    /\ \A x \in db.documentos : x.num_documento \notin {"400", "600"}

\* C13 (same-company invariant): after any sequence of imports, for any
\* number of companies, the document and the product of every persisted
\* SaleItem exist and belong to the same company.
C13_SameCompany ==
    \A v \in db.vendas :
        \E doc \in db.documentos, prod \in db.produtos :
            /\ doc.id = v.documento_id
            /\ prod.id = v.produto_id
            /\ doc.empresa_id = prod.empresa_id

\* Two companies whose files reuse an item code and a document number each
\* have a sale item of that product in that document.
C13_Witness ==
    \E v1, v2 \in db.vendas :
        LET d1 == DocumentoRel(db, v1)
            d2 == DocumentoRel(db, v2)
            p1 == ProdutoRel(db, v1)
            p2 == ProdutoRel(db, v2)
        IN  /\ d1.empresa_id # d2.empresa_id
            /\ d1.num_documento = d2.num_documento
            /\ d1.serie = d2.serie
            /\ p1.codigo_item = p2.codigo_item
            /\ p1.empresa_id = d1.empresa_id
            /\ p2.empresa_id = d2.empresa_id

(***************************************************************************)
(* Concurrent loader: two import requests, each in its own session, their  *)
(* statements interleaved.  SQLite runs SELECTs outside a transaction; the *)
(* first INSERT of a session begins its write transaction, which it holds  *)
(* until commit or rollback.  A session that needs the write lock while    *)
(* the other holds it waits, and gets OperationalError ("database is       *)
(* locked") when the wait times out.                                       *)
(***************************************************************************)
\* What session p reads: its own uncommitted rows when it holds the write
\* transaction, the committed database otherwise.
View(p) == IF writer = p THEN pending ELSE db

\* The statement at l.pc is an INSERT.
NeedsLock(l, d) == l.pc = "create" \/ ImportStepFn(l, d).tx = "write"

\* The request reads the file and parses it (no database access).
ConcBegin(p, f, s) ==
    /\ proc[p].pc = "idle"
    /\ imports < MaxImports
    /\ imports' = imports + 1
    /\ \E l0 \in {StepBegin(f, s, db)} : proc' = [proc EXCEPT ![p] = l0]
    /\ UNCHANGED <<parseVars, dbVars, last_import, callVars, webVars>>

\* The request runs its next statement.
ConcStep(p) ==
    /\ proc[p].pc \notin {"idle", "done"}
    /\ NeedsLock(proc[p], View(p)) => writer \in {0, p}
    /\ \E r \in {ImportStepFn(proc[p], View(p))} :
          /\ proc' = [proc EXCEPT ![p] = Passo(r, View(p))]
          /\ CASE r.tx = "write" ->
                    /\ writer' = p
                    /\ pending' = r.d
                    /\ db' = db
               [] r.tx = "commit" /\ writer = p ->
                    /\ writer' = 0
                    /\ pending' = EmptyDb
                    /\ db' = pending
               [] r.tx = "rollback" /\ writer = p ->
                    /\ writer' = 0
                    /\ pending' = EmptyDb
                    /\ db' = db
               [] OTHER -> UNCHANGED dbVars
    /\ UNCHANGED <<parseVars, imports, last_import, callVars, webVars>>

\* The wait for the write lock times out: OperationalError, caught by
\* "except Exception" (rollback, failure).
ConcBusy(p) ==
    /\ proc[p].pc \notin {"idle", "done"}
    /\ NeedsLock(proc[p], View(p))
    /\ writer \notin {0, p}
    /\ proc' = [proc EXCEPT ![p] = [StepExcept(proc[p]) EXCEPT !.falha = "locked"]]
    /\ UNCHANGED <<parseVars, dbVars, imports, last_import, callVars, webVars>>

FilesConc == {FileA, FileDup}

NextConc ==
    \E p \in Procs :
        \/ \E f \in FilesConc : ConcBegin(p, f, 0)
        \/ ConcStep(p)
        \/ ConcBusy(p)
        \/ ImportReturn(p)

SpecConc == Init /\ [][NextConc]_vars

ImportedAlone(f, d0) ==
    Only({RunImport(l0, d0, d0, "none").db : l0 \in {StepBegin(f, 0, d0)}})

SeedFiles == {FileA, FileDup}

InitDup ==
    /\ ParseIdle
    /\ CallIdle
    /\ db \in {ImportedAlone(f, EmptyDb) : f \in SeedFiles}
    /\ writer = 0
    /\ pending = EmptyDb
    /\ proc = [p \in Procs |-> IdleProc]
    /\ imports = 0
    /\ last_import = None

SpecDup == InitDup /\ [][NextConc]_vars

\* No two rows of a table share its natural key.
NoDuplicateKeys(d) ==
    /\ \A r1, r2 \in d.produtos : SameProduto(r1, r2) => r1 = r2
    /\ \A r1, r2 \in d.documentos : SameDocumento(r1, r2) => r1 = r2
    /\ \A r1, r2 \in d.vendas : SameVenda(r1, r2) => r1 = r2

\* Two imports of the same file, into a company registered before either
\* started, have both run to their return, and no other import has run
\* since the database was seeded.
DuplicateImportsDone ==
    /\ imports = 2
    /\ \A p \in Procs :
          /\ proc[p].pc = "done"
          /\ proc[p].file = proc[1].file
          /\ proc[p].documentos # <<>>
          /\ EmpresaByCnpj(proc[p].db0, cnpj_limpo(proc[p])) # {}

\* C11 as claimed (concurrent duplicate imports are safe): in every
\* interleaving of two imports of the same file into an existing company
\* both imports succeed, the persisted rows are exactly those a single
\* import leaves, and no two products, documents or sale items share their
\* natural key.
C11_ConcurrentDuplicates ==
    /\ NoDuplicateKeys(db)
    /\ DuplicateImportsDone =>
          /\ \A p \in Procs : Res(p).ok
          /\ \A p \in Procs : db = ImportedAlone(proc[p].file, proc[p].db0)

\* C11 amended: the same, where an import whose wait for SQLite's write
\* lock times out returns failure instead; at least one of the two
\* succeeds, and the persisted rows are those of a single import.
C11_ConcurrentDuplicatesOrLocked ==
    /\ NoDuplicateKeys(db)
    /\ DuplicateImportsDone =>
          /\ \A p \in Procs : Res(p).ok \/ proc[p].falha = "locked"
          /\ \E p \in Procs : Res(p).ok
          /\ \A p \in Procs : db = ImportedAlone(proc[p].file, proc[p].db0)

\* Both requests started on the same database, one waited for the other's
\* commit, both succeeded and the file's new product and sale item are
\* stored once.
C11_Witness ==
    /\ DuplicateImportsDone
    /\ proc[1].db0 = proc[2].db0
    /\ Res(1).ok
    /\ Res(2).ok
    /\ Res(1).novas_vendas + Res(2).novas_vendas > 0
    /\ db # proc[1].db0
    /\ Cardinality(db.vendas) > Cardinality(proc[1].db0.vendas)

(***************************************************************************)
(* Reports next to imports.  A report request opens two sessions: the      *)
(* first counts the products with no accumulator and is closed, the second *)
(* runs the sales query and builds the report.  An import, in its own      *)
(* session, may commit between the two.  A report session reads the        *)
(* committed database.                                                     *)
(***************************************************************************)
\* validate_competencia and the first session (lines 1053-1068 and
\* 1184-1203): the exception raised, None when the request goes on.
Precondicao(d, competencia, empresa_id) ==
    LET v == validate_competencia(competencia)
        n == produtos_sem_acumulador(d, empresa_id)
    IN  IF ~v.ok THEN Some(RelErro("validacao", 0))
        ELSE IF n > 0 THEN Some(RelErro("sem_acumulador", n))
        ELSE None

\* The second session (lines 1070-1171 and 1205-1312).
Consulta(op, d, competencia, empresa_id) ==
    LET v == validate_competencia(competencia)
    IN  IF op = "get_relatorio_vendas"
        THEN RelOk(RelatorioVendasData(d,
                calcular_valor_com_rateio(
                    ById(VendasJoin(d, v.val, empresa_id, FALSE)), DocTotal(d))))
        ELSE RelOk(RelatorioCfopData(d,
                calcular_valor_com_rateio(
                    ById(VendasJoin(d, v.val, empresa_id, TRUE)), DocTotal(d))))

\* The two counters the CFOP loop logs (lines 1264-1300).  An item whose
\* product, accumulator or CFOP is missing takes a "continue" and is
\* counted in neither; vendas_com_erro is incremented by the except branch
\* only, and the attribute reads of the try block raise nothing.
CfopLog(d, rat) ==
    LET Pulada(r) ==
            \/ ~\E x \in d.produtos : x.id = r.venda.produto_id
            \/ ProdutoRel(d, r.venda).acumulador_id = None
            \/ ~\E a \in d.acumuladores : a.id = ProdutoRel(d, r.venda).acumulador_id[1]
            \/ ~\E c \in d.cfops : c.id = AcumuladorRel(d, ProdutoRel(d, r.venda)).cfop_id
    IN  [vendas_processadas |-> Len(SelectSeq(rat, LAMBDA r : ~Pulada(r))),
         vendas_com_erro    |-> 0]

Relatorios == {"get_relatorio_vendas", "get_relatorio_cfop"}

\* The request validates the competency and runs the first session.
RelatorioInicio(op, competencia, empresa_id) ==
    /\ resp = None
    /\ \E pre \in {Precondicao(db, competencia, empresa_id)} :
          resp' = Some([op |-> op, competencia |-> competencia,
                        empresa_id |-> empresa_id,
                        fase |-> IF pre = None THEN "consulta" ELSE "fim",
                        out |-> pre, dbq |-> None, log |-> None])
    /\ UNCHANGED <<parseVars, dbVars, importVars, rateio, webVars>>

\* The request runs the second session; dbq records the database it read.
RelatorioConsulta ==
    /\ resp # None
    /\ "fase" \in DOMAIN resp[1]
    /\ resp[1].fase = "consulta"
    /\ \E out \in {Consulta(resp[1].op, db, resp[1].competencia, resp[1].empresa_id)} :
          resp' = Some([resp[1] EXCEPT
                          !.fase = "fim", !.out = Some(out), !.dbq = Some(db),
                          !.log = Some(CfopLog(db,
                                    calcular_valor_com_rateio(
                                        ById(VendasJoin(db,
                                                validate_competencia(resp[1].competencia).val,
                                                resp[1].empresa_id, TRUE)),
                                        DocTotal(db))))])
    /\ UNCHANGED <<parseVars, dbVars, importVars, rateio, webVars>>

FilesRace == {FileA, FileErr}

CompetenciasRace == {None, Some("2024-03")}

NextRace ==
    \/ \E f \in FilesRace : ConcBegin(1, f, 0)
    \/ ConcStep(1)
    \/ ImportReturn(1)
    \/ \E e \in Selecoes \ {0} : AddCfop("5102", e)
    \/ \E e \in Selecoes \ {0} : AddAcumulador("ACU", "Vendas", "5102", e)
    \/ \E cp \in ProdutoInputs : UpdateProdutoAcumulador(cp, "ACU")
    \/ \E op \in Relatorios, c \in CompetenciasRace, e \in Selecoes :
          RelatorioInicio(op, c, e)
    \/ RelatorioConsulta
    \/ Responder

SpecRace == Init /\ [][NextRace]_vars

\* A report request that ran its sales query has returned.
RelatorioConsultado(op) ==
    /\ resp # None
    /\ "fase" \in DOMAIN resp[1]
    /\ resp[1].op = op
    /\ resp[1].fase = "fim"
    /\ resp[1].dbq # None

\* The sale items of the target company and competency in database d.
VendasEscopo(d, competencia, empresa_id) ==
    {v \in d.vendas :
        /\ empresa_id # 0 =>
              \E doc \in d.documentos : doc.id = v.documento_id /\ doc.empresa_id = empresa_id
        /\ (competencia # None /\ competencia[1] # "") =>
              v.data \div 100 = DigitsVal(SubSeq(competencia[1], 1, 4)) * 100
                                   + DigitsVal(SubSeq(competencia[1], 6, 7))}

\* Those of them whose product has no accumulator.
VendasSemAcumulador(d, competencia, empresa_id) ==
    {v \in VendasEscopo(d, competencia, empresa_id) :
        \E x \in d.produtos : x.id = v.produto_id /\ x.acumulador_id = None}

\* The sum of the totals of a CFOP report.
TotalCfop(data) == RSum([k \in 1..Len(data) |-> data[k].total])

\* C16 (CFOP report skip): when get_relatorio_cfop has passed its
\* precondition and a sale item in scope has a product with no accumulator,
\* the report returns without raising, the item is in no CFOP total, and
\* the errors diagnostic vendas_com_erro counts it.
C16_CfopSkipCounted ==
    RelatorioConsultado("get_relatorio_cfop") =>
        LET d   == resp[1].dbq[1]
            sem == VendasSemAcumulador(d, resp[1].competencia, resp[1].empresa_id)
            com == VendasEscopo(d, resp[1].competencia, resp[1].empresa_id) \ sem
        IN  sem # {} =>
               /\ resp[1].out[1].ok
               /\ TotalCfop(resp[1].out[1].data[1])
                     = SomaFinal(calcular_valor_com_rateio(ById(com), DocTotal(d)))
               /\ resp[1].log[1].vendas_com_erro = Cardinality(sem)

\* C17 (no partial report): every by-accumulator or by-CFOP report that
\* returns successfully has in its totals every sale item of the target
\* company and competency, also when an import commits between the
\* precondition check and the sales query: the items the query returned are
\* all the items in scope, and none of them has a product with no
\* accumulator.
C17_NoPartialReport ==
    \A op \in Relatorios :
        (RelatorioConsultado(op) /\ resp[1].out[1].ok) =>
            LET d      == resp[1].dbq[1]
                c      == validate_competencia(resp[1].competencia).val
                escopo == VendasEscopo(d, resp[1].competencia, resp[1].empresa_id)
            IN  /\ VendasJoin(d, c, resp[1].empresa_id, op = "get_relatorio_cfop") = escopo
                /\ \A v \in escopo :
                      \E x \in d.produtos : x.id = v.produto_id /\ x.acumulador_id # None

(***************************************************************************)
(* Order of the inserts inside one import transaction (SpecConc).          *)
(***************************************************************************)
\* Every sale item of d refers to a document row and a product row of d.
ReferencesExist(d) ==
    \A v \in d.vendas :
        /\ \E x \in d.documentos : x.id = v.documento_id
        /\ \E x \in d.produtos : x.id = v.produto_id

\* Session p has inserted sale items in its open write transaction.
VendasInseridas(p) == writer = p /\ pending.vendas # db.vendas

\* C21 (two-pass ordering): in every state reachable by any interleaving of
\* imports, inside the import transaction too, each sale item's
\* documento_id and produto_id refer to existing document and product rows;
\* and a session holds inserted sale items only after its product and
\* document inserts ran and with the key-to-id maps as re-read after them:
\* every product and document of the file is in the session's view and the
\* maps are those of that view.
C21_TwoPassOrdering ==
    /\ ReferencesExist(db)
    /\ writer # 0 => ReferencesExist(pending)
    /\ \A p \in Procs :
          VendasInseridas(p) =>
             /\ proc[p].pc = "commit"
             /\ proc[p].doc_map = DocMap(pending, proc[p].empresa_id)
             /\ proc[p].produto_map = ProdutoMap(pending, proc[p].empresa_id)
             /\ \A i \in 1..Len(proc[p].produtos) :
                   proc[p].produtos[i].codigo_item \in DOMAIN proc[p].produto_map
             /\ \A i \in 1..Len(proc[p].documentos) :
                   <<proc[p].documentos[i].num_documento,
                     proc[p].documentos[i].serie>> \in DOMAIN proc[p].doc_map

\* An import into a database that already holds the company has inserted a
\* new product, and a sale item of it, in its open transaction.
C21_Witness ==
    \E p \in Procs :
        /\ VendasInseridas(p)
        /\ proc[p].db0.vendas # {}
        /\ pending.produtos # db.produtos
        /\ \E v \in pending.vendas \ db.vendas :
              v.produto_id \notin {x.id : x \in db.produtos}

(***************************************************************************)
(* Key resolution of the sale items (Spec).                                *)
(***************************************************************************)
\* C22 (no sale item is lost at key resolution): when an import into the
\* empty database returns success, every deduplicated sale item of the file
\* resolved its document and its product in the maps, and the number of
\* sale items stored equals the number of deduplicated sale items, one per
\* distinct (document number, series, item code) of the accepted line
\* items.
C22_NoItemLost ==
    (/\ proc[1].pc = "done"
     /\ Res(1).ok
     /\ proc[1].db0 = EmptyDb) =>
        /\ \A i \in 1..Len(proc[1].vendas) :
              /\ MapGet(proc[1].doc_map,
                        <<proc[1].vendas[i].num_documento, proc[1].vendas[i].serie>>) # 0
              /\ MapGet(proc[1].produto_map, proc[1].vendas[i].codigo_item) # 0
        /\ Cardinality(db.vendas) = Len(proc[1].vendas)

(***************************************************************************)
(* The counts of the success message next to a competing import (SpecDup). *)
(***************************************************************************)
\* C23 (reported counts): the numbers of new documents, products and sale
\* items an import returns with success are the numbers of rows the import
\* itself inserted, in every interleaving with another import of the same
\* company.
C23_ReportedCounts ==
    \A p \in Procs :
        (proc[p].pc = "done" /\ Res(p).ok) =>
            /\ Res(p).novos_docs = proc[p].inseridos.docs
            /\ Res(p).novos_produtos = proc[p].inseridos.produtos
            /\ Res(p).novas_vendas = proc[p].inseridos.vendas

(***************************************************************************)
(* Classification in a store of several companies: deletions and the bulk  *)
(* update next to add_cfop, add_acumulador and update_produto_acumulador.  *)
(* The lookups of these four are .first() of a query filtered by the code  *)
(* alone: any row with the code, of any company, may be the one returned.  *)
(***************************************************************************)
\* Mutant: the accumulator is deleted without counting its products.
DeleteAcumulador_ungated(codigo) ==
    /\ Atendendo
    /\ LET found == {a \in db.acumuladores : a.codigo = codigo}
       IN  IF found = {}
           THEN resp' = Resposta("delete_acumulador", FALSE, "nao_encontrado") /\ db' = db
           ELSE \E acumulador \in found :
                   /\ resp' = Resposta("delete_acumulador", TRUE, "deletado")
                   /\ db' = [db EXCEPT !.acumuladores = @ \ {acumulador}]
    /\ last_import' = None
    /\ UNCHANGED <<parseVars, writer, pending, proc, imports, rateio, webVars>>

\* delete_acumulador(codigo)
DeleteAcumulador(codigo) ==
    /\ Atendendo
    /\ LET found == {a \in db.acumuladores : a.codigo = codigo}
       IN  IF found = {}
           THEN resp' = Resposta("delete_acumulador", FALSE, "nao_encontrado") /\ db' = db
           ELSE \E acumulador \in found :
                   LET produtos_count ==
                           Cardinality({x \in db.produtos :
                                           x.acumulador_id = Some(acumulador.id)})
                   IN  IF produtos_count > 0
                       THEN resp' = Resposta("delete_acumulador", FALSE, "em_uso")
                            /\ db' = db
                       ELSE /\ resp' = Resposta("delete_acumulador", TRUE, "deletado")
                            /\ db' = [db EXCEPT !.acumuladores = @ \ {acumulador}]
    /\ last_import' = None
    /\ UNCHANGED <<parseVars, writer, pending, proc, imports, rateio, webVars>>

\* delete_cfop(cfop): the second count (products through accumulators) is
\* 0 whenever the first is.
DeleteCfop(cfop) ==
    /\ Atendendo
    /\ LET found == {c \in db.cfops : c.cfop = cfop}
       IN  IF found = {}
           THEN resp' = Resposta("delete_cfop", FALSE, "nao_encontrado") /\ db' = db
           ELSE \E cfop_obj \in found :
                   LET acumuladores_associados ==
                           Cardinality({a \in db.acumuladores : a.cfop_id = cfop_obj.id})
                       produtos_associados ==
                           Cardinality({x \in db.produtos :
                              \E a \in db.acumuladores :
                                 /\ x.acumulador_id = Some(a.id)
                                 /\ a.cfop_id = cfop_obj.id})
                   IN  IF acumuladores_associados > 0 \/ produtos_associados > 0
                       THEN resp' = Resposta("delete_cfop", FALSE, "em_uso") /\ db' = db
                       ELSE /\ resp' = Resposta("delete_cfop", TRUE, "deletado")
                            /\ db' = [db EXCEPT !.cfops = @ \ {cfop_obj}]
    /\ last_import' = None
    /\ UNCHANGED <<parseVars, writer, pending, proc, imports, rateio, webVars>>

\* bulk_update_produto_acumulador(product_codes, acumulador_code): one
\* UPDATE of every product whose item code is in the list.
BulkUpdateProdutoAcumulador(product_codes, acumulador_code) ==
    /\ Atendendo
    /\ LET found == {a \in db.acumuladores : a.codigo = acumulador_code}
           hit   == {x \in db.produtos : x.codigo_item \in product_codes}
       IN  IF product_codes = {}
           THEN resp' = Resposta("bulk_update", FALSE, "nenhum_produto") /\ db' = db
           ELSE IF acumulador_code = ""
           THEN resp' = Resposta("bulk_update", FALSE, "nenhum_acumulador") /\ db' = db
           ELSE IF found = {}
           THEN resp' = Resposta("bulk_update", FALSE, "acumulador_invalido") /\ db' = db
           ELSE \E acumulador \in found :
                   /\ resp' = Resposta("bulk_update", TRUE, "atualizados")
                   /\ db' = [db EXCEPT !.produtos = (@ \ hit) \cup
                               {[x EXCEPT !.acumulador_id = Some(acumulador.id)] : x \in hit}]
    /\ last_import' = None
    /\ UNCHANGED <<parseVars, writer, pending, proc, imports, rateio, webVars>>

\* Two companies whose files share the item code A.
FilesClass == {FileA, FileB}

\* Primary keys grow as rows are deleted and added again; rows are added
\* while the next key of the table is at most MaxIds.
MaxIds == 3

CodigosClass == {"ACU", ""}

ListasClass == {{}, {"A"}, {"A", "B"}}

NextClass ==
    \/ \E f \in FilesClass : Import(1, f, 0, "none")
    \/ ImportReturn(1)
    \/ \E e \in Selecoes : NextId(db.cfops) <= MaxIds /\ AddCfop("5102", e)
    \/ \E e \in Selecoes :
          NextId(db.acumuladores) <= MaxIds /\ AddAcumulador("ACU", "Vendas", "5102", e)
    \/ \E cp \in {"A", "B"}, ca \in CodigosClass : UpdateProdutoAcumulador(cp, ca)
    \/ \E l \in ListasClass, ca \in CodigosClass : BulkUpdateProdutoAcumulador(l, ca)
    \/ DeleteAcumulador("ACU")
    \/ DeleteCfop("5102")
    \/ Responder

SpecClass == Init /\ [][NextClass]_vars

\* Every product's accumulator and every accumulator's CFOP is a stored row.
LinksExist(d) ==
    /\ \A x \in d.produtos :
          x.acumulador_id # None =>
             \E a \in d.acumuladores : a.id = x.acumulador_id[1]
    /\ \A a \in d.acumuladores : \E c \in d.cfops : c.id = a.cfop_id

\* The step removes no accumulator that a product refers to and no CFOP
\* that an accumulator refers to, and a refused deletion changes no row.
DeleteGated ==
    /\ \A a \in db.acumuladores \ db'.acumuladores :
          ~\E x \in db.produtos : x.acumulador_id = Some(a.id)
    /\ \A c \in db.cfops \ db'.cfops :
          ~\E a \in db.acumuladores : a.cfop_id = c.id
    /\ (/\ resp = None
        /\ resp' # None
        /\ resp'[1].op \in {"delete_acumulador", "delete_cfop"}
        /\ ~resp'[1].ok) => db' = db

\* C24 (deletion gated on dependents): delete_acumulador never removes an
\* accumulator referenced by a product and delete_cfop never removes a CFOP
\* referenced by an accumulator, a refused deletion leaves every row
\* unchanged, and after any sequence of imports, add, delete and classify
\* operations every product's accumulator link and every accumulator's CFOP
\* link refer to stored rows.
C24_DeletionGated == [](LinksExist(db)) /\ [][DeleteGated]_vars

\* A deletion was refused for an accumulator in use, with a product still
\* linked to it.
C24_Witness ==
    /\ resp # None
    /\ resp[1].op = "delete_acumulador"
    /\ resp[1].msg = "em_uso"
    /\ \E x \in db.produtos : x.acumulador_id # None
    /\ \E a \in db.acumuladores :
          ~\E x \in db.produtos : x.acumulador_id = Some(a.id)

(***************************************************************************)
(* Dates of the stored sale items (Spec).                                  *)
(***************************************************************************)
\* C25 (item date equals document date): after any sequence of imports,
\* every stored sale item's date is the date of the document it belongs to.
C25_ItemDate ==
    \A v \in db.vendas :
        \A x \in db.documentos : x.id = v.documento_id => v.data = x.data

(***************************************************************************)
(* The report by accumulator next to the sales summary: imports of one     *)
(* company whose second file repeats a document with items of a later      *)
(* month, classification of its products, and the two queries.             *)
(***************************************************************************)
\* A later file of the first company: document (100, 1), already in FileA
\* with a date in March, now dated in April and with one more item.
FileLate ==
    << L0000("ACME", "11222"),
       L0200("C", "Nut"),
       LC100("1", "1", "100", "02042024", "30,00", "0"),
       LC170("C", "1", "30,00", "") >>

FilesTotais == {FileA, FileLate}

CompetenciasTotais == {None, Some("2024-03"), Some("2024-04")}

NextTotais ==
    \/ \E f \in FilesTotais : Import(1, f, 0, "none")
    \/ ImportReturn(1)
    \/ \E e \in Selecoes : AddCfop("5102", e)
    \/ \E e \in Selecoes : AddAcumulador("ACU", "Vendas", "5102", e)
    \/ \E l \in {{"A", "B"}, {"A", "B", "C"}} : BulkUpdateProdutoAcumulador(l, "ACU")
    \/ \E c \in CompetenciasTotais, e \in Selecoes : RelatorioVendas(c, e)
    \/ \E c \in CompetenciasTotais, e \in Selecoes : GetVendas(c, e)
    \/ Responder

SpecTotais == Init /\ [][NextTotais]_vars

\* The net values of the stored sale items of document x, added up.
SomaLiquida(x) ==
    SomaItens(ById({v \in db.vendas : v.documento_id = x.id}))

\* Every product of the company is classified, and every document of the
\* summary has a stored sale item and a positive sum of net item values.
Comparavel(competencia, empresa_id) ==
    /\ produtos_sem_acumulador(db, empresa_id) = 0
    /\ \A x \in DocumentosSaida(db, competencia, empresa_id) :
          /\ \E v \in db.vendas : v.documento_id = x.id
          /\ SomaLiquida(x) > 0

\* C26 (report total matches sales summary): after any sequence of
\* successful imports, for any company and competency in which all products
\* are classified and every document dated in the competency has a stored
\* sale item and a positive sum of net item values, total_geral of
\* get_relatorio_vendas equals total_vendas of get_vendas.
C26_ReportMatchesSummary ==
    \A e \in Selecoes, c \in CompetenciasTotais :
        Comparavel(c, e) =>
            get_relatorio_vendas(db, c, e).data[1].total_geral
                = RInt(get_vendas(db, c, e).data[1].total_vendas)

(***************************************************************************)
(* The report by CFOP next to the report by accumulator, in a store of two *)
(* companies whose accumulators share a code and point to different CFOPs. *)
(***************************************************************************)
\* CFOP rows are added while fewer than MaxCfops are stored.
MaxCfops == 2

NextCross ==
    \/ \E f \in FilesClass : Import(1, f, 0, "none")
    \/ ImportReturn(1)
    \/ \E cfop \in {"5102", "6102"}, e \in Selecoes :
          Cardinality(db.cfops) < MaxCfops /\ AddCfop(cfop, e)
    \/ \E cfop \in {"5102", "6102"}, e \in Selecoes :
          AddAcumulador("ACU", "Vendas", cfop, e)
    \/ \E cp \in {"A", "B"} : UpdateProdutoAcumulador(cp, "ACU")
    \/ Responder

SpecCross == Init /\ [][NextCross]_vars

\* The by-accumulator totals of report rv whose accumulator code is that of
\* a stored accumulator linked to the CFOP code cfop, added up.
TotalDosAcumuladores(rv, cfop) ==
    SomaFinal(SelectSeq([j \in 1..Len(rv.acumuladores) |->
                            [codigo |-> rv.acumuladores[j].codigo,
                             valor_final |-> rv.acumuladores[j].total]],
                        LAMBDA r :
                           \E a \in db.acumuladores :
                              /\ a.codigo = r.codigo
                              /\ CfopRel(db, a).cfop = cfop))

C28_TenantIsolation ==
    \A x \in db.produtos :
        x.acumulador_id # None =>
           \A a \in db.acumuladores :
              a.id = x.acumulador_id[1] => a.empresa_id = x.empresa_id

(***************************************************************************)
(* The login form (app.py): the lockout after MAX_LOGIN_ATTEMPTS failed    *)
(* logins, kept in the browser session.  Time is counted in minutes.       *)
(***************************************************************************)
MAX_LOGIN_ATTEMPTS == 5

LOGIN_LOCKOUT_DURATION == 15

\* The users table: one administrator (has_admin_user() is true).  senha
\* stands for the password whose hash the row stores.
Users == {[id |-> 1, username |-> "admin", senha |-> "s3nha", is_admin |-> TRUE]}

\* User.check_password: check_password_hash(generate_password_hash(p), q).
CheckPassword(user, password) == user.senha = password

\* failed_attempts.get(username, default)
UserAttempts(failed_attempts, username, default) ==
    IF \E r \in failed_attempts : r.username = username
    THEN Only({r \in failed_attempts : r.username = username})
    ELSE default

\* failed_attempts[username] = user_attempts
SetUserAttempts(failed_attempts, user_attempts) ==
    {r \in failed_attempts : r.username # user_attempts.username}
        \cup {user_attempts}

\* _handle_failed_login: count += 1 and last_attempt = now.
HandleFailedLogin(failed_attempts, username, now) ==
    LET user_attempts ==
            UserAttempts(failed_attempts, username,
                         [username |-> username, count |-> 0, last_attempt |-> None])
    IN SetUserAttempts(failed_attempts,
           [user_attempts EXCEPT !.count = @ + 1, !.last_attempt = Some(now)])

\* _clear_failed_login_attempts
ClearFailedLoginAttempts(failed_attempts, username) ==
    {r \in failed_attempts : r.username # username}

\* A lockout check that records the refused attempt as one more failure at
\* `now`, which the code does not do.
CheckAndHandleLockout_extend(failed_attempts, username, now) ==
    LET user_attempts ==
            UserAttempts(failed_attempts, username,
                         [username |-> username, count |-> 0, last_attempt |-> None])
    IN IF user_attempts.last_attempt # None
          /\ user_attempts.count >= MAX_LOGIN_ATTEMPTS
       THEN IF now < user_attempts.last_attempt[1] + LOGIN_LOCKOUT_DURATION
            THEN [refused |-> TRUE, reset |-> FALSE,
                  failed_attempts |->
                      SetUserAttempts(failed_attempts,
                          [user_attempts EXCEPT !.last_attempt = Some(now)])]
            ELSE [refused |-> FALSE, reset |-> TRUE,
                  failed_attempts |->
                      SetUserAttempts(failed_attempts,
                                      [user_attempts EXCEPT !.count = 0])]
       ELSE [refused |-> FALSE, reset |-> FALSE, failed_attempts |-> failed_attempts]

\* _check_and_handle_lockout: refused while now < last_attempt + 15 minutes;
\* from then on the count is set to 0 and the login goes on.  last_attempt
\* is the isoformat() text of an aware datetime, which fromisoformat reads
\* back exactly, so the except branch is never taken.
CheckAndHandleLockout(failed_attempts, username, now) ==
    LET user_attempts ==
            UserAttempts(failed_attempts, username,
                         [username |-> username, count |-> 0, last_attempt |-> None])
    IN IF user_attempts.last_attempt # None
          /\ user_attempts.count >= MAX_LOGIN_ATTEMPTS
       THEN IF now < user_attempts.last_attempt[1] + LOGIN_LOCKOUT_DURATION
            THEN [refused |-> TRUE, reset |-> FALSE,
                  failed_attempts |-> failed_attempts]
            ELSE [refused |-> FALSE, reset |-> TRUE,
                  failed_attempts |->
                      SetUserAttempts(failed_attempts,
                                      [user_attempts EXCEPT !.count = 0])]
       ELSE [refused |-> FALSE, reset |-> FALSE, failed_attempts |-> failed_attempts]

\* The outcome of POST /login: the session's failed_attempts, who is
\* authenticated, and what the request was answered with.  erro: the query
\* of the user raises (the except Exception branch).
LoginOutcome(l, form_username, password, erro, now) ==
    LET username == Strip(form_username)
        t == [username |-> username, password |-> password, resultado |-> "",
              reset |-> FALSE, seq |-> 1 - l.tentativa.seq]
    IN IF l.autenticado # None
       THEN [l EXCEPT !.tentativa = [t EXCEPT !.resultado = "redirect"]]
       ELSE IF username = "" \/ password = ""
       THEN [l EXCEPT !.tentativa = [t EXCEPT !.resultado = "campos"]]
       ELSE
       LET lockout == CheckAndHandleLockout(l.failed_attempts, username, now)
           found == {u \in Users : u.username = username}
           certa == \E u \in found : CheckPassword(u, password)
       IN IF lockout.refused
          THEN [l EXCEPT !.failed_attempts = lockout.failed_attempts,
                         !.tentativa = [t EXCEPT !.resultado = "bloqueada"],
                         !.recusados = IF certa THEN @ \cup {username} ELSE @]
          ELSE IF erro
          THEN [l EXCEPT !.failed_attempts = lockout.failed_attempts,
                         !.tentativa = [t EXCEPT !.resultado = "erro",
                                                 !.reset = lockout.reset]]
          ELSE IF certa
          THEN [l EXCEPT !.failed_attempts =
                             ClearFailedLoginAttempts(lockout.failed_attempts, username),
                         !.autenticado = Some(username),
                         !.tentativa = [t EXCEPT !.resultado = "sucesso",
                                                 !.reset = lockout.reset]]
          ELSE [l EXCEPT !.failed_attempts =
                             HandleFailedLogin(lockout.failed_attempts, username, now),
                         !.tentativa = [t EXCEPT !.resultado = "falha",
                                                 !.reset = lockout.reset]]

Login(form_username, password, erro) ==
    /\ login' = LoginOutcome(login, form_username, password, erro, agora)
    /\ UNCHANGED <<parseVars, dbVars, importVars, callVars, agora, limiter>>

\* GET /logout (login_required): logout_user() leaves failed_attempts in
\* the session.
Logout ==
    /\ login.autenticado # None
    /\ login' = [login EXCEPT !.autenticado = None]
    /\ UNCHANGED <<parseVars, dbVars, importVars, callVars, agora, limiter>>

\* d minutes pass, up to minute max.
Tick(d, max) ==
    /\ agora + d <= max
    /\ agora' = agora + d
    /\ UNCHANGED <<parseVars, dbVars, importVars, callVars, login, limiter>>

MaxNow == 16

PassosLogin == {7, 8}

UsernamesForm == {"admin", "admin ", "ghost", ""}

PasswordsForm == {"s3nha", "errada", ""}

NextLogin ==
    \/ \E d \in PassosLogin : Tick(d, MaxNow)
    \/ \E u \in UsernamesForm, s \in PasswordsForm, erro \in BOOLEAN : Login(u, s, erro)
    \/ Logout

SpecLogin == Init /\ [][NextLogin]_vars

\* A login request was answered in this step.
TentativaFeita == login'.tentativa.seq # login.tentativa.seq

\* The request went as far as checking the password.
Avaliada(t) == t.resultado \in {"sucesso", "falha"}

LockoutStep ==
    TentativaFeita =>
        LET t == login'.tentativa
            certa == \E u \in Users : u.username = t.username /\ u.senha = t.password
        IN /\ \A r \in login.failed_attempts :
                  r.username = t.username /\ r.count >= MAX_LOGIN_ATTEMPTS =>
                      IF agora < r.last_attempt[1] + LOGIN_LOCKOUT_DURATION
                      THEN /\ ~Avaliada(t)
                           /\ t.resultado # "erro"
                           /\ login.autenticado = None /\ t.username # "" /\ t.password # ""
                                  => t.resultado = "bloqueada"
                           /\ login'.failed_attempts = login.failed_attempts
                           /\ login'.autenticado = login.autenticado
                      ELSE login.autenticado = None /\ t.password # "" =>
                           /\ t.resultado \in {"sucesso", "falha", "erro"}
                           /\ t.resultado = "erro" \/ (t.resultado = "sucesso" <=> certa)
                           /\ t.resultado = "falha" =>
                                  login'.failed_attempts =
                                      (login.failed_attempts \ {r})
                                          \cup {[r EXCEPT !.count = 1,
                                                          !.last_attempt = Some(agora)]}
                           /\ t.resultado = "erro" =>
                                  login'.failed_attempts =
                                      (login.failed_attempts \ {r})
                                          \cup {[r EXCEPT !.count = 0]}
           /\ t.resultado = "sucesso" =>
                  /\ login'.autenticado = Some(t.username)
                  /\ login'.failed_attempts =
                         {r \in login.failed_attempts : r.username # t.username}

\* C29: once a username has MAX_LOGIN_ATTEMPTS (5) failed logins in the
\* session, a login request for it made less than LOGIN_LOCKOUT_DURATION
\* (15 minutes) after the last failed one is refused without the password
\* being checked, the right one included, and leaves failed_attempts as it
\* was; the first request from 15 minutes on sets the count to 0 and is
\* evaluated as usual (a failure then counts as the first); a successful
\* login removes the username's counter.  The count never exceeds 5.
C29_LoginLockout ==
    /\ [](\A r \in login.failed_attempts : r.count <= MAX_LOGIN_ATTEMPTS)
    /\ [][LockoutStep]_vars

\* C29 (witness): the right password of admin was refused during a lockout,
\* and a later request, made once the 15 minutes were over, reset the count
\* and logged admin in.
C29_Witness ==
    /\ "admin" \in login.recusados
    /\ login.tentativa.username = "admin"
    /\ login.tentativa.reset
    /\ login.tentativa.resultado = "sucesso"
    /\ login.autenticado = Some("admin")

(***************************************************************************)
(* The rate limiter (security_middleware.py): one deque of timestamps per  *)
(* client, shared by every decorated endpoint.  Time is counted in         *)
(* minutes.  The decorated handlers themselves are the actions Import,     *)
(* AddAcumulador and AddCfop of the other specifications; they touch none  *)
(* of the limiter's state.                                                 *)
(***************************************************************************)
\* The three decorated endpoints of sped.py with their decorator arguments.
Endpoints ==
    {[nome |-> "importar_sped", max_requests |-> 10, window_minutes |-> 5],
     [nome |-> "add_acumulador", max_requests |-> 30, window_minutes |-> 1],
     [nome |-> "add_cfop", max_requests |-> 30, window_minutes |-> 1]}

\* client_id: remote_addr, and "_user_<id>" for an authenticated user (the
\* endpoints are login_required, so the user is always authenticated).
ClientId(remote_addr, user_id) == remote_addr \o "_user_" \o user_id

\* while q and q[0] < cutoff: q.popleft()
RECURSIVE PopOld(_, _)
PopOld(q, cutoff) ==
    IF Len(q) > 0 /\ Head(q) < cutoff THEN PopOld(Tail(q), cutoff) ELSE q

\* rate_limit_storage[key], a defaultdict: a missing key reads as an empty
\* deque.
ClientRequests(storage, key) ==
    IF \E r \in storage : r.key = key
    THEN Only({r \in storage : r.key = key}).requests
    ELSE <<>>

\* _cleanup_old_entries: every 300 seconds drops the timestamps older than
\* one hour and the keys left empty.
CleanupOldEntries(lim, now) ==
    IF now - lim.last_cleanup < 5 THEN lim
    ELSE [lim EXCEPT
             !.rate_limit_storage =
                 {r \in {[x EXCEPT !.requests = PopOld(@, now - 60)] :
                            x \in lim.rate_limit_storage} :
                     r.requests # <<>>},
             !.last_cleanup = now]

\* decorated_function of rate_limit(max_requests, window_minutes): cleanup,
\* drop this client's timestamps older than the endpoint's window, answer
\* 429 when max_requests remain, else record now and call the handler.
RateLimit(lim, client_id, endpoint, now) ==
    LET lim1 == CleanupOldEntries(lim, now)
        window_start == now - endpoint.window_minutes
        client_requests ==
            PopOld(ClientRequests(lim1.rate_limit_storage, client_id), window_start)
        outros == {r \in lim1.rate_limit_storage : r.key # client_id}
        admitido == ~(Len(client_requests) >= endpoint.max_requests)
        final == IF admitido THEN Append(client_requests, now) ELSE client_requests
        igual(r) == r.client_id = client_id /\ r.endpoint = endpoint.nome
                    /\ r.quando = now
        antes == {r \in lim.admitidos : igual(r)}
        n == IF antes = {} THEN 0 ELSE Only(antes).n
    IN [lim1 EXCEPT
           !.rate_limit_storage =
               outros \cup {[key |-> client_id, requests |-> final]},
           !.admitidos =
               IF admitido
               THEN (@ \ antes) \cup {[client_id |-> client_id,
                                      endpoint |-> endpoint.nome,
                                      quando |-> now, n |-> n + 1]}
               ELSE @,
           !.ultimo = Some([client_id |-> client_id, endpoint |-> endpoint.nome,
                            quando |-> now, admitido |-> admitido]),
           !.pedidos = @ + 1]

MaxPedidos == 12

MaxMinutos == 2

PassosLimit == {2}

Clientes == {ClientId("10.0.0.1", "1")}

\* One request of a client to a decorated endpoint.
Request(client_id, endpoint) ==
    /\ limiter.pedidos < MaxPedidos
    /\ limiter' = RateLimit(limiter, client_id, endpoint, agora)
    /\ UNCHANGED <<parseVars, dbVars, importVars, callVars, agora, login>>

NextLimit ==
    \/ \E d \in PassosLimit : Tick(d, MaxMinutos)
    \/ \E c \in Clientes, e \in Endpoints : Request(c, e)

SpecLimit == Init /\ [][NextLimit]_vars

RECURSIVE SomaN(_)
SomaN(S) == IF S = {} THEN 0
            ELSE LET r == CHOOSE x \in S : TRUE IN r.n + SomaN(S \ {r})

\* The number of requests of a client admitted to an endpoint in the
\* minutes t .. t + w - 1.
AdmitidosEm(client_id, nome, t, w) ==
    SomaN({r \in limiter.admitidos :
              /\ r.client_id = client_id
              /\ r.endpoint = nome
              /\ r.quando >= t
              /\ r.quando < t + w})

WindowBound ==
    \A c \in Clientes, e \in Endpoints, t \in 0..agora :
        AdmitidosEm(c, e.nome, t, e.window_minutes) <= e.max_requests

RefusedNotRecorded ==
    (limiter'.pedidos # limiter.pedidos /\ ~limiter'.ultimo[1].admitido) =>
        LET c == limiter'.ultimo[1].client_id
            q == ClientRequests(limiter.rate_limit_storage, c)
            q2 == ClientRequests(limiter'.rate_limit_storage, c)
        IN /\ limiter'.admitidos = limiter.admitidos
           /\ \E k \in 0..Len(q) : q2 = SubSeq(q, k + 1, Len(q))

\* C30: for every client and every rate-limited endpoint, whatever mix of
\* rate-limited endpoints the client calls, the number of requests admitted
\* to the endpoint within any interval of its window_minutes is at most its
\* max_requests (at most 10 imports in 5 minutes), and a refused request
\* adds no timestamp to the client's deque.
C30_RateLimitBound ==
    /\ [](WindowBound)
    /\ [][RefusedNotRecorded]_vars

====
